---- MODULE Spec2Model ----
(***************************************************************************)
(* Incremental API harvesters of the repository:                           *)
(*   - strava-data-puller/strava_pull.py  (StravaRateLimiter, request_json) *)
(*   - music-history/scripts/lastfm_ingest.py (JSONL tool and Parquet tool) *)
(*   - music-history/main.py                                                *)
(***************************************************************************)
EXTENDS Integers, Sequences, FiniteSets, TLC

\* ------------------------------------------------------------------------
\* Bounds of the model
\* ------------------------------------------------------------------------
\* request_json / fetch_page_with_retries calls made by one process
MaxCalls == 3
\* the free-running clock stops ticking here (sleeps still advance it)
MaxTime == 7
\* StravaRateLimiter(short_window_limit=..., daily_limit=...) of the small instance
ShortWindowLimitArg == 4
DailyLimitArg == 5
\* StravaRateLimiter(short_window_seconds=...) of the small instance
ShortWindowSeconds == 3
\* length of the daily window, 24 * 60 * 60 in _prune, scaled to the small clock
DaySeconds == 5
\* BASE_DELAY, 15 in the source, scaled to the small clock
BASE_DELAY == 1
\* processes started one after the other
MaxRuns == 2
\* seconds the clock of the harvesting host advances
MaxTicks == 1
\* items per page: --limit / --page-size, 200 by default
PageLimit == 1
\* --max-pages of a Strava run that stops before the last page of the athlete
MaxPagesArg == 2
\* direct calls of a merge function, and rows of one call
MaxMerges == 2
MaxBatch == 2
\* time.time() when the first process starts: 2024-02-02 00:00:00 UTC
StartTime == 1706832000

\* ------------------------------------------------------------------------
\* Program constants
\* ------------------------------------------------------------------------
MAX_RETRIES == 5
\* --max-pages, default
max_pages == 50
DEFAULT_MAX_RETRIES == 5
DEFAULT_BACKOFF_BASE_SECONDS == 1
safety_margin == 2

\* random.uniform(0, 0.3), in milliseconds: both ends of the interval and a middle
JitterMs == {0, 150, 300}

None == "None"

Max(a, b) == IF a >= b THEN a ELSE b

\* ------------------------------------------------------------------------
\* Outcomes of one HTTP attempt
\* ------------------------------------------------------------------------
Http(s) == [kind |-> "http", status |-> s]
Timeout == [kind |-> "Timeout", status |-> 0]
ConnectionError == [kind |-> "ConnectionError", status |-> 0]
\* a 200 response whose body is not JSON
JSONDecodeError == [kind |-> "JSONDecodeError", status |-> 200]
NoOutcome == [kind |-> "none", status |-> 0]

Statuses == {200, 401, 404, 429, 500, 502, 503, 504}
Outcomes == {Http(s) : s \in Statuses} \cup {Timeout, ConnectionError, JSONDecodeError}

VARIABLES
    requester,    \* the fetch function this process uses
    rpc,          \* position of the process in its fetch function
    attempt,      \* loop variable of the retry loop
    calls,        \* fetches started by this process
    http_calls,   \* HTTP attempts of the current fetch
    http_total,   \* HTTP attempts the process made through request_json
    acquired,     \* returns of wait_for_slot in the process
    slot_sleeps,  \* sleeps inside wait_for_slot in the process
    sleeps,       \* backoff sleeps of the current fetch
    last_sleep,   \* length of the latest backoff sleep of the current fetch
    last_status,  \* outcome of the latest HTTP attempt of the current fetch
    n429,         \* 429 responses of the current fetch
    error,        \* the exception that ended the process, or None
    now,          \* time.time()
    limiter,      \* the StravaRateLimiter object
    \* --- the harvesting tools
    tool,         \* the program this behaviour runs
    hpc,          \* position of the running process in its main function
    runs,         \* processes started so far
    args,         \* command line of the running process
    from_uts,     \* the start cursor the run resolved (a set: empty is None)
    page,         \* page number of the page loop
    total_pages,  \* total_pages of fetch_recent_tracks
    all_rows,     \* rows accumulated by the page loop
    todo,         \* partition groups still to be written, in the order of the loop
    pending,      \* rows of the current group not yet written to its file
    tmp_file,     \* the .jsonl.tmp file of merge_raw_monthly_jsonl (a set)
    remote,       \* scrobbles the Last.fm account holds
    state_file,   \* lastfm_last_uts.txt (a set: empty when the file is missing)
    raw_files,    \* main.py: scrobbles_YYYY-MM.jsonl files of the raw directory
    out_files,    \* lastfm_ingest.py main: year=/month=/scrobbles.jsonl files
    curated,      \* scrobbles_<time>.parquet files of the curated directory
    raw_dumps,    \* lastfm_ingest.py run: recent_<time>.jsonl files
    activities_ndjson, \* strava_pull.py: activities.ndjson (and activities.json)
    detail_files, \* strava_pull.py: ids of the activities/<id>.json files
    summary,      \* lastfm_ingest.py main: the counts merge_into_monthly_jsonl returns
    \* --- history variables of the properties
    resume_k,       \* pages the previous process had completed when it was killed
    requested,      \* page numbers of the page requests of this process, in their order
    detailed,       \* ids of the detail requests of this process, in their order
    reported,       \* totalPages of the page responses of this process, in their order
    interrupted,    \* start cursors of the killed process the next one follows (a set)
    playing_seen,   \* history: a page of this process held a currently-playing item
    partial,        \* "killed": the last process was killed between its first partition
                    \* write and the write of the watermark, the account unchanged
                    \* since it began; "rerun": this process repeats its command line
    idem,           \* this run repeats a completed run and no remote data is new
    remote_changed, \* the account got new scrobbles since the run before this one began
    base,           \* the partitions and the watermark when this run began
    merging,        \* the partition file being merged, with its sizes before and after
    rows_after_429  \* rows of the pages this run fetched after 429 responses only

reqvars == <<requester, rpc, attempt, calls, http_calls, http_total, acquired,
             sleeps, last_sleep, last_status, n429, error>>
limvars == <<now, limiter, slot_sleeps>>
hvars == <<tool, hpc, runs, args, from_uts, page, total_pages, all_rows, todo, pending,
           tmp_file, remote, state_file, raw_files, out_files, curated, raw_dumps,
           activities_ndjson, detail_files, summary>>
gvars == <<resume_k, requested, detailed, reported, interrupted, partial, playing_seen, idem, remote_changed, base,
          merging, rows_after_429>>
vars == <<reqvars, limvars, hvars, gvars>>

\* ------------------------------------------------------------------------
\* StravaRateLimiter
\* ------------------------------------------------------------------------
StravaRateLimiter(short_window_limit, short_window_seconds, daily_limit, margin) ==
    [ short_window_limit    |-> Max(1, short_window_limit - margin),
      short_window_seconds  |-> short_window_seconds,
      daily_limit           |-> Max(1, daily_limit - margin),
      short_window_requests |-> << >>,
      daily_requests        |-> << >> ]

RECURSIVE popleft_while(_, _, _)
popleft_while(q, t, window) ==
    IF q # << >> /\ t - Head(q) >= window
    THEN popleft_while(Tail(q), t, window)
    ELSE q

\* _prune without its first loop: short_window_requests is left as it is
_prune_daily_only(self, t) ==
    [ self EXCEPT !.daily_requests = popleft_while(@, t, DaySeconds) ]

_prune(self, t) ==
    [ self EXCEPT
        !.short_window_requests = popleft_while(@, t, self.short_window_seconds),
        !.daily_requests        = popleft_while(@, t, DaySeconds) ]

\* the daily check with > in place of >=
DailyLimitReachedStrict(self) == Len(self.daily_requests) > self.daily_limit

DailyLimitReached(self) == Len(self.daily_requests) >= self.daily_limit

\* the short-window check with <= in place of <
ShortWindowHasRoomInclusive(self) ==
    Len(self.short_window_requests) <= self.short_window_limit

ShortWindowHasRoom(self) == Len(self.short_window_requests) < self.short_window_limit

\* sleep_for without the second of grace
sleep_for_no_grace(self, t) ==
    self.short_window_requests[1] + self.short_window_seconds - t

sleep_for(self, t) == self.short_window_requests[1] + self.short_window_seconds - t + 1

\* wait_for_slot, one iteration of its loop that raises SystemExit
wait_for_slot_raise ==
    /\ requester = "request_json"
    /\ rpc = "wait"
    /\ LET pruned == _prune(limiter, now) IN
         /\ DailyLimitReached(pruned)
         /\ limiter' = pruned
    /\ rpc' = "exit"
    /\ error' = "SystemExit: daily limit"
    /\ UNCHANGED <<requester, attempt, calls, http_calls, http_total, acquired,
                   sleeps, last_sleep, last_status, n429, now, slot_sleeps,
                   hvars, gvars>>

\* wait_for_slot, the iteration that returns
wait_for_slot_return ==
    /\ requester = "request_json"
    /\ rpc = "wait"
    /\ LET pruned == _prune(limiter, now) IN
         /\ ~DailyLimitReached(pruned)
         /\ ShortWindowHasRoom(pruned)
         /\ limiter' = pruned
    /\ rpc' = "get"
    /\ acquired' = acquired + 1
    /\ UNCHANGED <<requester, attempt, calls, http_calls, http_total,
                   sleeps, last_sleep, last_status, n429, error, now, slot_sleeps,
                   hvars, gvars>>

\* wait_for_slot, an iteration that sleeps and loops
wait_for_slot_sleep ==
    /\ requester = "request_json"
    /\ rpc = "wait"
    /\ LET pruned == _prune(limiter, now) IN
         /\ ~DailyLimitReached(pruned)
         /\ ~ShortWindowHasRoom(pruned)
         /\ limiter' = pruned
         /\ now' = IF sleep_for(pruned, now) > 0 THEN now + sleep_for(pruned, now) ELSE now
         /\ slot_sleeps' = IF sleep_for(pruned, now) > 0 THEN slot_sleeps + 1 ELSE slot_sleeps
    /\ UNCHANGED <<reqvars, hvars, gvars>>

note_request ==
    /\ requester = "request_json"
    /\ rpc = "note"
    /\ limiter' = [ limiter EXCEPT
                      !.short_window_requests = Append(@, now),
                      !.daily_requests        = Append(@, now) ]
    /\ rpc' = "status"
    /\ UNCHANGED <<requester, attempt, calls, http_calls, http_total, acquired,
                   sleeps, last_sleep, last_status, n429, error, now, slot_sleeps,
                   hvars, gvars>>

\* ------------------------------------------------------------------------
\* request_json (strava_pull.py)
\* ------------------------------------------------------------------------
request_json_call ==
    /\ requester = "request_json"
    /\ rpc = "idle"
    /\ calls < MaxCalls
    /\ calls' = calls + 1
    /\ attempt' = 0
    /\ http_calls' = 0
    /\ sleeps' = 0
    /\ last_sleep' = 0
    /\ last_status' = NoOutcome
    /\ n429' = 0
    /\ rpc' = "wait"
    /\ UNCHANGED <<requester, http_total, acquired, error, now, limiter, slot_sleeps,
                   hvars, gvars>>

\* requests.get(...): Timeout and ConnectionError are raised here and nothing catches them
request_json_get(o) ==
    /\ requester = "request_json"
    /\ rpc = "get"
    /\ http_calls' = http_calls + 1
    /\ http_total' = http_total + 1
    /\ last_status' = o
    /\ n429' = IF o = Http(429) THEN n429 + 1 ELSE n429
    /\ IF o.kind \in {"Timeout", "ConnectionError"}
       THEN rpc' = "exit" /\ error' = o.kind
       ELSE rpc' = "note" /\ error' = error
    /\ UNCHANGED <<requester, attempt, calls, acquired, sleeps, last_sleep, now, limiter, slot_sleeps,
                   hvars, gvars>>

request_json_delay(a) == BASE_DELAY * (2 ^ a)

\* a loop of MAX_RETRIES + 1 iterations
request_json_loop_one_more(a) == a + 1 <= MAX_RETRIES

\* for attempt in range(MAX_RETRIES): another iteration follows iteration a
request_json_loop_continues(a) == a + 1 < MAX_RETRIES

\* status 429: sleep, continue; the loop ends after MAX_RETRIES iterations
request_json_rate_limited ==
    /\ requester = "request_json"
    /\ rpc = "status"
    /\ last_status.status = 429
    /\ now' = now + request_json_delay(attempt)
    /\ sleeps' = sleeps + 1
    /\ last_sleep' = request_json_delay(attempt)
    /\ attempt' = attempt + 1
    /\ IF request_json_loop_continues(attempt)
       THEN rpc' = "wait" /\ error' = error
       ELSE rpc' = "exit" /\ error' = "SystemExit: retries"
    /\ UNCHANGED <<requester, calls, http_calls, http_total, acquired, last_status,
                   n429, limiter, slot_sleeps,
                   hvars, gvars>>

\* status >= 400 other than 429: response.raise_for_status()
request_json_raise_for_status ==
    /\ requester = "request_json"
    /\ rpc = "status"
    /\ last_status.status # 429
    /\ last_status.status >= 400
    /\ rpc' = "exit"
    /\ error' = "HTTPError"
    /\ UNCHANGED <<requester, attempt, calls, http_calls, http_total, acquired,
                   sleeps, last_sleep, last_status, n429, now, limiter, slot_sleeps,
                   hvars, gvars>>

\* return response.json()
request_json_return ==
    /\ requester = "request_json"
    /\ rpc = "status"
    /\ last_status.status < 400
    /\ IF last_status.kind = "JSONDecodeError"
       THEN rpc' = "exit" /\ error' = "JSONDecodeError"
       ELSE rpc' = "idle" /\ error' = error
    /\ UNCHANGED <<requester, attempt, calls, http_calls, http_total, acquired,
                   sleeps, last_sleep, last_status, n429, now, limiter, slot_sleeps,
                   hvars, gvars>>

\* ------------------------------------------------------------------------
\* fetch_page_with_retries (lastfm_ingest.py); sleeps are in milliseconds
\* ------------------------------------------------------------------------
fetch_page_with_retries_call ==
    /\ requester = "fetch_page_with_retries"
    /\ rpc = "idle"
    /\ calls < MaxCalls
    /\ calls' = calls + 1
    /\ attempt' = 1
    /\ http_calls' = 0
    /\ sleeps' = 0
    /\ last_sleep' = 0
    /\ last_status' = NoOutcome
    /\ n429' = 0
    /\ rpc' = "get"
    /\ UNCHANGED <<requester, http_total, acquired, error, now, limiter, slot_sleeps,
                   hvars, gvars>>

\* session.get; raise_for_status; response.json() all succeed
Succeeds(o) == o.kind = "http" /\ o.status < 400

\* a backoff that does not grow with the attempt
sleep_seconds_flat_ms(a, jitter) == DEFAULT_BACKOFF_BASE_SECONDS * 1000 + jitter

sleep_seconds_ms(a, jitter) == DEFAULT_BACKOFF_BASE_SECONDS * 1000 * (2 ^ (a - 1)) + jitter

fetch_page_with_retries_return(o) ==
    /\ requester = "fetch_page_with_retries"
    /\ rpc = "get"
    /\ Succeeds(o)
    /\ http_calls' = http_calls + 1
    /\ last_status' = o
    /\ rpc' = "idle"
    /\ UNCHANGED <<requester, attempt, calls, http_total, acquired, sleeps, last_sleep, n429,
                   error, now, limiter, slot_sleeps,
                   hvars, gvars>>

\* except (Timeout, ConnectionError, HTTPError, JSONDecodeError), attempt < max_retries
fetch_page_with_retries_retry(o, jitter) ==
    /\ requester = "fetch_page_with_retries"
    /\ rpc = "get"
    /\ ~Succeeds(o)
    /\ attempt # DEFAULT_MAX_RETRIES
    /\ http_calls' = http_calls + 1
    /\ last_status' = o
    /\ n429' = IF o = Http(429) THEN n429 + 1 ELSE n429
    /\ sleeps' = sleeps + 1
    /\ last_sleep' = sleep_seconds_ms(attempt, jitter)
    /\ attempt' = attempt + 1
    /\ UNCHANGED <<requester, rpc, calls, http_total, acquired, error, now, limiter, slot_sleeps,
                   hvars, gvars>>

\* the same on the last attempt: break, raise RuntimeError
fetch_page_with_retries_raise(o) ==
    /\ requester = "fetch_page_with_retries"
    /\ rpc = "get"
    /\ ~Succeeds(o)
    /\ attempt = DEFAULT_MAX_RETRIES
    /\ http_calls' = http_calls + 1
    /\ last_status' = o
    /\ n429' = IF o = Http(429) THEN n429 + 1 ELSE n429
    /\ rpc' = "exit"
    /\ error' = "RuntimeError"
    /\ UNCHANGED <<requester, attempt, calls, http_total, acquired, sleeps, last_sleep, now, limiter, slot_sleeps,
                   hvars, gvars>>

\* ------------------------------------------------------------------------
\* Last.fm: the items of user.getRecentTracks and the rows made of them
\* ------------------------------------------------------------------------
\* one element of recenttracks.track: date.uts, artist.#text, name, album.#text, mbid,
\* @attr.nowplaying; dated is FALSE when the item has no date block
Track(uts, artist, name, album, mbid) ==
    [ dated |-> TRUE, uts |-> uts, artist |-> artist, name |-> name, album |-> album,
      mbid |-> mbid, nowplaying |-> FALSE ]

\* the synthetic currently-playing item: no date, @attr.nowplaying = "true"
NowPlayingItem ==
    [ dated |-> FALSE, uts |-> 0, artist |-> "A", name |-> "Playing", album |-> "",
      mbid |-> "", nowplaying |-> TRUE ]

\* an item without a date block and without the nowplaying attribute
UndatedItem ==
    [ dated |-> FALSE, uts |-> 0, artist |-> "B", name |-> "Undated", album |-> "",
      mbid |-> "", nowplaying |-> FALSE ]

\* the scrobbles an account of the model can hold: 2024-01-01 00:00:00, 2024-01-02
\* 00:00:00 and 2024-02-01 00:00:00 UTC
Universe ==
    { Track(1704067200, "A", "Song", "", "m1"),
      Track(1704153600, "A", "Other", "AL", ""),
      Track(1706745600, "B", "Feb Song", "Album", "") }

\* a currently-playing item that carries a date block: 2024-03-01 00:00:00 UTC
NowPlayingDatedItem ==
    [ dated |-> TRUE, uts |-> 1709251200, artist |-> "A", name |-> "Playing", album |-> "",
      mbid |-> "", nowplaying |-> TRUE ]

\* what the tools put before the dated items of a response
Extras == { << >>, <<NowPlayingItem>>, <<NowPlayingDatedItem>>, <<UndatedItem>> }

\* x or None
OrNone(x) == IF x = "" THEN None ELSE x

SetMax(S) == CHOOSE x \in S : \A y \in S : y <= x
Min(a, b) == IF a <= b THEN a ELSE b

\* the items of the account with uts >= from, newest first
RECURSIVE newest_first(_)
newest_first(S) ==
    IF S = {} THEN << >>
    ELSE LET m == CHOOSE x \in S : \A y \in S : y.uts <= x.uts
         IN  <<m>> \o newest_first(S \ {m})

\* the response of user.getRecentTracks for (from, page, limit)
recenttracks(account, from, pg, limit, extra) ==
    LET matching == { t \in account : \A f \in from : t.uts >= f }
        sorted   == newest_first(matching)
        n        == Len(sorted)
        lo       == (pg - 1) * limit + 1
        hi       == Min(pg * limit, n)
    IN  [ track      |-> extra \o (IF lo > n THEN << >> ELSE SubSeq(sorted, lo, hi)),
          totalPages |-> (n + limit - 1) \div limit ]

\* pd.to_datetime(uts, unit="s", utc=True): (year, month) of a unix time
year_month(uts) ==
    LET z   == (uts \div 86400) + 719468
        era == z \div 146097
        doe == z - era * 146097
        yoe == (doe - doe \div 1460 + doe \div 36524 - doe \div 146096) \div 365
        doy == doe - (365 * yoe + yoe \div 4 - yoe \div 100)
        mp  == (5 * doy + 2) \div 153
        m   == IF mp < 10 THEN mp + 3 ELSE mp - 9
        y   == yoe + era * 400 + (IF m <= 2 THEN 1 ELSE 0)
    IN  <<y, m>>

\* normalize without the test of @attr.nowplaying: one row per dated item
RECURSIVE normalize_keep_playing(_)
normalize_keep_playing(items) ==
    IF items = << >> THEN << >>
    ELSE LET it   == Head(items)
             rest == normalize_keep_playing(Tail(items))
         IN  IF ~it.dated THEN rest
             ELSE << [ uts |-> it.uts, artist |-> it.artist, track |-> it.name,
                       album |-> OrNone(it.album), mbid_track |-> OrNone(it.mbid) ] >>
                  \o rest

\* lastfm_ingest.py (Parquet tool) normalize: one row per dated item that is not playing
RECURSIVE normalize(_)
normalize(items) ==
    IF items = << >> THEN << >>
    ELSE LET it   == Head(items)
             rest == normalize(Tail(items))
         IN  IF it.nowplaying THEN rest
             ELSE IF ~it.dated THEN rest
             ELSE << [ uts |-> it.uts, artist |-> it.artist, track |-> it.name,
                       album |-> OrNone(it.album), mbid_track |-> OrNone(it.mbid) ] >>
                  \o rest

\* the identity of a row: (uts, artist, track, album)
scrobble_identity(row) == <<row.uts, row.artist, row.track, row.album>>

\* no two rows of q have the same identity key
NoTwoEqualKeys(q) ==
    \A i, j \in DOMAIN q : i # j => scrobble_identity(q[i]) # scrobble_identity(q[j])

\* DataFrame.drop_duplicates(subset=["uts", "artist", "track", "album"]): the first row
\* of every key
RECURSIVE drop_duplicates_from(_, _)
drop_duplicates_from(rows, seen) ==
    IF rows = << >> THEN << >>
    ELSE IF scrobble_identity(Head(rows)) \in seen
         THEN drop_duplicates_from(Tail(rows), seen)
         ELSE <<Head(rows)>>
              \o drop_duplicates_from(Tail(rows), seen \cup {scrobble_identity(Head(rows))})

drop_duplicates(rows) == drop_duplicates_from(rows, {})

Range(q) == { q[i] : i \in DOMAIN q }

\* df.groupby(["year", "month"]): the groups in ascending (year, month) order
RECURSIVE groupby_year_month_of(_, _)
groupby_year_month_of(rows, keys) ==
    IF keys = {} THEN << >>
    ELSE LET k == CHOOSE a \in keys : \A b \in keys : a[1] * 12 + a[2] <= b[1] * 12 + b[2]
         IN  << [ ym |-> k, rows |-> SelectSeq(rows, LAMBDA r : year_month(r.uts) = k) ] >>
             \o groupby_year_month_of(rows, keys \ {k})

groupby_year_month(rows) ==
    groupby_year_month_of(rows, { year_month(r.uts) : r \in Range(rows) })

\* rows of all Parquet files of the curated directory
curated_rows(files) == UNION { Range(f.rows) : f \in files }

\* latest_uts_from_curated
latest_uts_from_curated(files) ==
    IF curated_rows(files) = {} THEN {}
    ELSE { SetMax({ r.uts : r \in curated_rows(files) }) }

\* resolve_from_uts that starts a first run at uts 0
resolve_from_uts_from_zero(cli_from_uts, cli_since, full_refetch, state_uts, curated_uts, t) ==
    IF full_refetch THEN 0
    ELSE IF cli_from_uts # {} THEN SetMax(cli_from_uts) + 1
    ELSE IF cli_since # {} THEN SetMax(cli_since)
    ELSE IF state_uts \cup curated_uts = {} THEN 0
    ELSE SetMax(state_uts \cup curated_uts) + 1

\* resolve_from_uts(cli_from_uts, cli_since, full_refetch, state_file, curated_root)
resolve_from_uts(cli_from_uts, cli_since, full_refetch, state_uts, curated_uts, t) ==
    IF full_refetch THEN 0
    ELSE IF cli_from_uts # {} THEN SetMax(cli_from_uts) + 1
    ELSE IF cli_since # {} THEN SetMax(cli_since)
    ELSE IF state_uts \cup curated_uts = {} THEN t - (30 * 24 * 3600)
    ELSE SetMax(state_uts \cup curated_uts) + 1

\* ------------------------------------------------------------------------
\* Monthly files of rows, shared by the JSONL tools
\* ------------------------------------------------------------------------
\* the rows of the file of month ym; no rows when the file does not exist
file_rows(files, ym) ==
    IF \E f \in files : f.ym = ym
    THEN (CHOOSE f \in files : f.ym = ym).rows
    ELSE << >>

\* a write that leaves the file of month ym alone in the directory
write_file_alone(files, ym, rows) == { [ ym |-> ym, rows |-> rows ] }

\* the directory after the file of month ym got the content rows
write_file(files, ym, rows) ==
    { f \in files : f.ym # ym } \cup { [ ym |-> ym, rows |-> rows ] }

\* rows grouped by month in a dict: the months in the order of their first row
RECURSIVE group_by_month_from(_, _)
group_by_month_from(rows, seen) ==
    IF rows = << >> THEN << >>
    ELSE LET k == year_month(Head(rows).uts)
         IN  IF k \in seen THEN group_by_month_from(Tail(rows), seen)
             ELSE << [ ym |-> k, rows |-> SelectSeq(rows, LAMBDA r : year_month(r.uts) = k) ] >>
                  \o group_by_month_from(Tail(rows), seen \cup {k})

group_by_month(rows) == group_by_month_from(rows, {})

\* the sort key int(r["uts"]), in main.py int(r.get("uts", 0))
uts_key(r) == IF "uts" \in DOMAIN r THEN r.uts ELSE 0

\* list.sort(key=lambda r: int(r["uts"])): stable, ascending
RECURSIVE sort_by_uts(_)
sort_by_uts(rows) ==
    IF rows = << >> THEN << >>
    ELSE LET m == CHOOSE i \in DOMAIN rows :
                      /\ \A j \in DOMAIN rows : uts_key(rows[i]) <= uts_key(rows[j])
                      /\ \A j \in DOMAIN rows : uts_key(rows[j]) = uts_key(rows[i]) => i <= j
         IN  <<rows[m]>>
             \o sort_by_uts(SubSeq(rows, 1, m - 1) \o SubSeq(rows, m + 1, Len(rows)))

\* ------------------------------------------------------------------------
\* Processes of the Last.fm tools
\* ------------------------------------------------------------------------
\* a command line without options
NoArgs == [ full_refetch |-> FALSE, from_uts |-> {}, since |-> {}, since_auto |-> FALSE ]

\* {"inserted": 0, "deduped": 0, "files_touched": 0}
NoSummary == [ inserted |-> 0, deduped |-> 0, files_touched |-> 0 ]

NoMerge == [ file |-> <<0, 0>>, pre |-> 0, post |-> 0, active |-> FALSE ]
NoBase ==
    [ state_file |-> {}, raw_files |-> {}, out_files |-> {}, curated |-> {},
      activities_ndjson |-> << >> ]

\* the persisted partitions and watermark
Storage ==
    [ state_file |-> state_file, raw_files |-> raw_files, out_files |-> out_files,
      curated |-> curated, activities_ndjson |-> activities_ndjson ]

\* no process is running: the last one returned, or an exception or a kill ended it
ProcessOver == hpc = "idle" \/ rpc = "exit"

\* the previous process returned from its main function
PreviousCompleted == runs > 0 /\ hpc = "idle" /\ rpc = "idle"

\* a new process: fresh memory, the files as the last process left them
start_process(a, from, first_pc) ==
    /\ ProcessOver
    /\ runs < MaxRuns
    /\ runs' = runs + 1
    /\ args' = a
    /\ from_uts' = from
    /\ page' = 1
    /\ total_pages' = 1
    /\ all_rows' = << >>
    /\ todo' = << >>
    /\ pending' = << >>
    /\ summary' = NoSummary
    /\ hpc' = first_pc
    /\ rpc' = "idle"
    /\ error' = None
    /\ attempt' = 0
    /\ calls' = 0
    /\ http_calls' = 0
    /\ http_total' = 0
    /\ acquired' = 0
    /\ sleeps' = 0
    /\ last_sleep' = 0
    /\ last_status' = NoOutcome
    /\ n429' = 0
    /\ resume_k' = IF error = "killed" THEN resume_k ELSE 0
    /\ requested' = << >>
    /\ detailed' = << >>
    /\ reported' = << >>
    /\ interrupted' = IF error = "killed" THEN interrupted ELSE {}
    /\ playing_seen' = FALSE
    /\ partial' = IF partial = "killed" /\ a = args THEN "rerun" ELSE "no"
    /\ idem' = (PreviousCompleted /\ ~remote_changed /\ a = args)
    /\ remote_changed' = FALSE
    /\ base' = IF PreviousCompleted /\ ~remote_changed /\ a = args THEN Storage ELSE NoBase
    /\ merging' = NoMerge
    /\ rows_after_429' = {}
    /\ UNCHANGED <<requester, tool, tmp_file, remote, state_file, raw_files, out_files,
                   curated, raw_dumps, activities_ndjson,
                   detail_files, now, slot_sleeps>>

\* the locals of a fetch function that returned
forget_fetch ==
    /\ attempt' = 0
    /\ http_calls' = 0
    /\ sleeps' = 0
    /\ last_sleep' = 0
    /\ last_status' = NoOutcome
    /\ n429' = 0

\* the memory of a process that is gone (args stays: the last command line)
forget_process ==
    /\ from_uts' = {}
    /\ page' = 1
    /\ total_pages' = 1
    /\ all_rows' = << >>
    /\ todo' = << >>
    /\ pending' = << >>
    /\ summary' = NoSummary
    /\ attempt' = 0
    /\ calls' = 0
    /\ http_calls' = 0
    /\ http_total' = 0
    /\ acquired' = 0
    /\ sleeps' = 0
    /\ last_sleep' = 0
    /\ last_status' = NoOutcome
    /\ n429' = 0
    /\ hpc' = "idle"

\* the running process has written a partition of its rows and not yet the watermark
CommittedSome ==
    \/ /\ tool = "lastfm_ingest.run"
       /\ hpc = "partitions"
       /\ todo # groupby_year_month(drop_duplicates(all_rows))
    \/ /\ tool = "main"
       /\ \/ hpc = "partitions"
          \/ hpc \in {"merge_raw", "replace"} /\ todo # group_by_month(drop_duplicates(all_rows))

\* the process is killed (SIGKILL, power loss) between two steps of its main function;
\* a kill inside a fetch leaves the files as a kill before that fetch does
Kill ==
    /\ hpc \notin {"idle", "fetching", "done"}
    /\ rpc = "idle"
    /\ rpc' = "exit"
    /\ error' = "killed"
    /\ forget_process
    /\ resume_k' = IF hpc = "loop" THEN page - 1 ELSE 0
    /\ requested' = << >>
    /\ detailed' = << >>
    /\ reported' = << >>
    /\ interrupted' = { from_uts }
    /\ playing_seen' = playing_seen
    /\ partial' = IF CommittedSome /\ ~remote_changed THEN "killed" ELSE "no"
    /\ idem' = FALSE
    /\ base' = NoBase
    /\ merging' = NoMerge
    /\ rows_after_429' = {}
    /\ UNCHANGED <<requester, limvars, tool, runs, args, tmp_file, remote, state_file,
                   raw_files, out_files, curated, raw_dumps, activities_ndjson,
                   detail_files, remote_changed>>

\* the process ends after its main function returned
Exit ==
    /\ hpc = "done"
    /\ rpc = "idle"
    /\ forget_process
    /\ requested' = << >>
    /\ detailed' = << >>
    /\ reported' = << >>
    /\ idem' = FALSE
    /\ base' = NoBase
    /\ merging' = NoMerge
    /\ rows_after_429' = {}
    /\ UNCHANGED <<requester, rpc, error, limvars, tool, runs, args, tmp_file, remote,
                   state_file, raw_files, out_files, curated, raw_dumps, activities_ndjson,
                   detail_files, resume_k, interrupted, playing_seen, partial, remote_changed>>

\* the account gets a scrobble: between two processes or between two pages of a run
\* (one arriving while a request is in flight is in the response or not, as one
\* arriving just before or just after the request)
RemoteGrow(t) ==
    /\ hpc \in {"idle", "loop"}
    /\ rpc = "idle"
    /\ t \notin remote
    /\ remote' = remote \cup {t}
    /\ remote_changed' = TRUE
    /\ partial' = "no"
    /\ UNCHANGED <<reqvars, limvars, tool, hpc, runs, args, from_uts, page, total_pages,
                   all_rows, todo, pending, tmp_file, state_file, raw_files, out_files,
                   curated, raw_dumps, activities_ndjson,
                   detail_files, summary, resume_k, requested, detailed, reported, interrupted, playing_seen, idem, base, merging, rows_after_429>>

\* time.time() of the harvesting host advances between two processes
TimePasses ==
    /\ hpc = "idle"
    /\ now < StartTime + MaxTicks
    /\ now' = now + 1
    /\ UNCHANGED <<reqvars, limiter, slot_sleeps, hvars, gvars>>

\* ------------------------------------------------------------------------
\* lastfm_ingest.py, the Parquet tool: run()
\* ------------------------------------------------------------------------
\* the command lines of the model: no option, --full-refetch, --from-uts
RunArgs ==
    { NoArgs,
      [ full_refetch |-> TRUE,  from_uts |-> {}, since |-> {}, since_auto |-> FALSE ],
      [ full_refetch |-> FALSE, from_uts |-> {1704067200}, since |-> {},
        since_auto |-> FALSE ] }

\* pq.write_table(table, part_dir / f"scrobbles_{int(time.time())}.parquet")
write_table(files, ym, t, rows) ==
    { f \in files : ~(f.ym = ym /\ f.stamp = t) } \cup { [ ym |-> ym, stamp |-> t, rows |-> rows ] }

\* run(): parse_args, resolve_from_uts
run_start(a) ==
    /\ tool = "lastfm_ingest.run"
    /\ start_process(a,
                     { resolve_from_uts(a.from_uts, a.since, a.full_refetch, state_file,
                                        latest_uts_from_curated(curated), now) },
                     "loop")
    /\ UNCHANGED limiter

\* run(): the call of fetch_page_with_retries in the page loop
run_fetch_page ==
    /\ tool = "lastfm_ingest.run"
    /\ hpc = "loop"
    /\ rpc = "idle"
    /\ hpc' = "fetching"
    /\ attempt' = 1
    /\ http_calls' = 0
    /\ sleeps' = 0
    /\ last_sleep' = 0
    /\ last_status' = NoOutcome
    /\ n429' = 0
    /\ rpc' = "get"
    /\ requested' = Append(requested, page)
    /\ detailed' = detailed
    /\ UNCHANGED <<requester, calls, http_total, acquired, error, limvars, tool, runs, args,
                   from_uts, page, total_pages, all_rows, todo, pending, tmp_file, remote,
                   state_file, raw_files, out_files, curated, raw_dumps, activities_ndjson,
                   detail_files, summary, resume_k, reported, interrupted, partial, playing_seen, idem,
                   remote_changed, base, merging, rows_after_429>>

\* a page put these items before the dated ones: one of them is currently playing
saw_playing(extra) == playing_seen \/ \E i \in DOMAIN extra : extra[i].nowplaying

\* run(): the loop body after fetch_page_with_retries returned the payload
run_page(extra) ==
    /\ tool = "lastfm_ingest.run"
    /\ hpc = "fetching"
    /\ rpc = "idle"
    /\ LET payload == recenttracks(remote, from_uts, page, PageLimit, extra)
           rows    == normalize(payload.track)
       IN  IF rows = << >>
           THEN /\ hpc' = "after_loop"
                /\ UNCHANGED <<all_rows, page, rows_after_429>>
           ELSE /\ all_rows' = all_rows \o rows
                /\ rows_after_429' = IF n429 >= 1 /\ n429 = http_calls - 1
                                     THEN rows_after_429 \cup Range(rows)
                                     ELSE rows_after_429
                /\ IF page >= payload.totalPages
                   THEN hpc' = "after_loop" /\ page' = page
                   ELSE hpc' = "loop" /\ page' = page + 1
    /\ forget_fetch
    /\ reported' = Append(reported,
                        recenttracks(remote, from_uts, page, PageLimit, extra).totalPages)
    /\ playing_seen' = saw_playing(extra)
    /\ UNCHANGED <<requester, rpc, calls, http_total, acquired, error,
                   limvars, tool, runs, args, from_uts, total_pages, todo,
                   pending, tmp_file, remote, state_file, raw_files, out_files, curated,
                   raw_dumps, activities_ndjson,
                   detail_files, summary, resume_k, requested, detailed, interrupted, partial, idem, remote_changed, base, merging>>

\* run(): if not all_rows: return 0; main(): if not all_rows: return
run_no_rows ==
    /\ tool \in {"lastfm_ingest.run", "main"}
    /\ hpc = "after_loop"
    /\ rpc = "idle"
    /\ all_rows = << >>
    /\ hpc' = "done"
    /\ UNCHANGED <<reqvars, limvars, tool, runs, args, from_uts, page, total_pages,
                   all_rows, todo, pending, tmp_file, remote, state_file, raw_files,
                   out_files, curated, raw_dumps, activities_ndjson,
                   detail_files, summary, gvars>>

\* run(): write_raw_jsonl, then drop_duplicates and the groupby of append_parquet_partitions
run_write_raw_jsonl ==
    /\ tool = "lastfm_ingest.run"
    /\ hpc = "after_loop"
    /\ rpc = "idle"
    /\ all_rows # << >>
    /\ raw_dumps' = { f \in raw_dumps : f.stamp # now }
                    \cup { [ stamp |-> now, rows |-> all_rows ] }
    /\ todo' = groupby_year_month(drop_duplicates(all_rows))
    /\ hpc' = "partitions"
    /\ UNCHANGED <<reqvars, limvars, tool, runs, args, from_uts, page, total_pages,
                   all_rows, pending, tmp_file, remote, state_file, raw_files, out_files,
                   curated, activities_ndjson, detail_files, summary, gvars>>

\* append_parquet_partitions: one iteration of its loop over the groups
append_parquet_partitions_group ==
    /\ tool \in {"lastfm_ingest.run", "main"}
    /\ hpc = "partitions"
    /\ rpc = "idle"
    /\ todo # << >>
    /\ curated' = write_table(curated, Head(todo).ym, now, Head(todo).rows)
    /\ todo' = Tail(todo)
    /\ UNCHANGED <<reqvars, limvars, tool, hpc, runs, args, from_uts, page, total_pages,
                   all_rows, pending, tmp_file, remote, state_file, raw_files, out_files,
                   raw_dumps, activities_ndjson,
                   detail_files, summary, gvars>>

\* the watermark one second after the newest row
max_uts_next(rows) == SetMax({ r.uts : r \in Range(drop_duplicates(rows)) }) + 1

\* the oldest timestamp of the frame in place of the newest
min_uts(rows) ==
    LET all == { r.uts : r \in Range(drop_duplicates(rows)) }
    IN  CHOOSE x \in all : \A y \in all : x <= y

\* max_uts = int(df["uts"].max())
max_uts(rows) == SetMax({ r.uts : r \in Range(drop_duplicates(rows)) })

\* save_last_uts called while append_parquet_partitions still has groups to write
save_last_uts_early ==
    /\ tool \in {"lastfm_ingest.run", "main"}
    /\ hpc = "partitions"
    /\ rpc = "idle"
    /\ state_file' = { max_uts(all_rows) }
    /\ hpc' = "done"
    /\ UNCHANGED <<reqvars, limvars, tool, runs, args, from_uts, page, total_pages,
                   all_rows, todo, pending, tmp_file, remote, raw_files, out_files,
                   curated, raw_dumps, activities_ndjson,
                   detail_files, summary, gvars>>

\* run() and main(): save_last_uts(max_uts), return
save_last_uts ==
    /\ tool \in {"lastfm_ingest.run", "main"}
    /\ hpc = "partitions"
    /\ rpc = "idle"
    /\ todo = << >>
    /\ state_file' = { max_uts(all_rows) }
    /\ hpc' = "done"
    /\ UNCHANGED <<reqvars, limvars, tool, runs, args, from_uts, page, total_pages,
                   all_rows, todo, pending, tmp_file, remote, raw_files, out_files,
                   curated, raw_dumps, activities_ndjson,
                   detail_files, summary, gvars>>

\* ------------------------------------------------------------------------
\* lastfm_ingest.py, the JSONL tool: main()
\* ------------------------------------------------------------------------
\* the command lines of the model: no option, --since (auto), --since 1704067200
IngestArgs ==
    { NoArgs,
      [ full_refetch |-> FALSE, from_uts |-> {}, since |-> {}, since_auto |-> TRUE ],
      [ full_refetch |-> FALSE, from_uts |-> {}, since |-> {1704067200},
        since_auto |-> FALSE ] }

\* find_latest_uts_in_jsonl
find_latest_uts_in_jsonl(files) ==
    LET all == UNION { { r.uts : r \in Range(f.rows) } : f \in files }
    IN  IF all = {} THEN {} ELSE { SetMax(all) }

\* parse_since_value
parse_since_value(a, files) ==
    IF a.since_auto THEN find_latest_uts_in_jsonl(files) ELSE a.since

\* fetch_recent_tracks: the rows of the items of one page
RECURSIVE track_rows(_)
track_rows(items) ==
    IF items = << >> THEN << >>
    ELSE LET it   == Head(items)
             rest == track_rows(Tail(items))
         IN  IF it.nowplaying THEN rest
             ELSE IF ~it.dated THEN rest
             ELSE << [ uts |-> it.uts, artist |-> it.artist, track |-> it.name,
                       album |-> OrNone(it.album), mbid |-> OrNone(it.mbid) ] >> \o rest

\* the exception a failed requests.get / raise_for_status / json() raises
exception_of(o) == IF o.kind = "http" THEN "HTTPError" ELSE o.kind

\* main(): parse_args, parse_since_value
ingest_start(a) ==
    /\ tool = "lastfm_ingest.main"
    /\ start_process(a, parse_since_value(a, out_files), "loop")
    /\ UNCHANGED limiter

\* fetch_recent_tracks that keeps the totalPages of its first response
fetch_recent_tracks_page_cached(o, extra) ==
    /\ tool = "lastfm_ingest.main"
    /\ hpc = "loop"
    /\ rpc = "idle"
    /\ page <= total_pages
    /\ requested' = Append(requested, page)
    /\ detailed' = detailed
    /\ IF o # Http(200)
       THEN /\ rpc' = "exit"
            /\ error' = exception_of(o)
            /\ UNCHANGED <<page, total_pages, all_rows, rows_after_429, playing_seen,
                         reported>>
       ELSE LET payload == recenttracks(remote, from_uts, page, PageLimit, extra)
            IN  /\ total_pages' = IF page = 1 THEN payload.totalPages ELSE total_pages
                /\ reported' = Append(reported, payload.totalPages)
                /\ all_rows' = all_rows \o track_rows(payload.track)
                /\ page' = page + 1
                /\ playing_seen' = saw_playing(extra)
                /\ UNCHANGED <<rpc, error, rows_after_429>>
    /\ UNCHANGED <<requester, attempt, calls, http_calls, http_total, acquired, sleeps,
                   last_sleep, last_status, n429, limvars, tool, hpc, runs, args, from_uts,
                   todo, pending, tmp_file, remote, state_file, raw_files, out_files,
                   curated, raw_dumps, activities_ndjson,
                   detail_files, summary, resume_k, interrupted, partial, idem, remote_changed, base, merging>>

\* fetch_recent_tracks: one iteration of while page <= total_pages
fetch_recent_tracks_page(o, extra) ==
    /\ tool = "lastfm_ingest.main"
    /\ hpc = "loop"
    /\ rpc = "idle"
    /\ page <= total_pages
    /\ requested' = Append(requested, page)
    /\ detailed' = detailed
    /\ IF o # Http(200)
       THEN /\ rpc' = "exit"
            /\ error' = exception_of(o)
            /\ UNCHANGED <<page, total_pages, all_rows, rows_after_429, playing_seen,
                         reported>>
       ELSE LET payload == recenttracks(remote, from_uts, page, PageLimit, extra)
            IN  /\ total_pages' = payload.totalPages
                /\ reported' = Append(reported, payload.totalPages)
                /\ all_rows' = all_rows \o track_rows(payload.track)
                /\ page' = page + 1
                /\ playing_seen' = saw_playing(extra)
                /\ UNCHANGED <<rpc, error, rows_after_429>>
    /\ UNCHANGED <<requester, attempt, calls, http_calls, http_total, acquired, sleeps,
                   last_sleep, last_status, n429, limvars, tool, hpc, runs, args, from_uts,
                   todo, pending, tmp_file, remote, state_file, raw_files, out_files,
                   curated, raw_dumps, activities_ndjson,
                   detail_files, summary, resume_k, interrupted, partial, idem, remote_changed, base, merging>>

\* main(): the rows after the boundary filter
after_since(rows, since) == SelectSeq(rows, LAMBDA r : \A x \in since : r.uts > x)

\* fetch_recent_tracks returns; main() filters; merge_into_monthly_jsonl builds by_file
merge_into_monthly_jsonl_call ==
    /\ tool = "lastfm_ingest.main"
    /\ hpc = "loop"
    /\ rpc = "idle"
    /\ page > total_pages
    /\ all_rows' = after_since(all_rows, from_uts)
    /\ todo' = group_by_month(after_since(all_rows, from_uts))
    /\ summary' = [ inserted |-> 0, deduped |-> 0,
                    files_touched |-> Len(group_by_month(after_since(all_rows, from_uts))) ]
    /\ hpc' = "merge"
    /\ UNCHANGED <<reqvars, limvars, tool, runs, args, from_uts, page, total_pages, pending,
                   tmp_file, remote, state_file, raw_files, out_files, curated, raw_dumps, activities_ndjson,
                   detail_files,
                   gvars>>

\* unique_new_rows that tests a row against the keys of the file only
unique_new_rows_not_in_file(existing, pending_rows) ==
    sort_by_uts(SelectSeq(pending_rows,
                          LAMBDA r : scrobble_identity(r)
                                         \notin { scrobble_identity(e) : e \in Range(existing) }))

\* unique_new_rows of merge_into_monthly_jsonl: first of every key not in the file, by uts
unique_new_rows(existing, pending_rows) ==
    sort_by_uts(drop_duplicates_from(pending_rows,
                                     { scrobble_identity(r) : r \in Range(existing) }))

\* merge_into_monthly_jsonl: one file of by_file, up to opening it for append
merge_into_monthly_jsonl_file ==
    /\ tool = "lastfm_ingest.main"
    /\ hpc = "merge"
    /\ rpc = "idle"
    /\ todo # << >>
    /\ LET ym       == Head(todo).ym
           existing == file_rows(out_files, ym)
           new      == unique_new_rows(existing, Head(todo).rows)
       IN  /\ summary' = [ summary EXCEPT !.deduped = @ + Len(Head(todo).rows) - Len(new) ]
           /\ IF new = << >>
              THEN /\ todo' = Tail(todo)
                   /\ UNCHANGED <<hpc, pending, merging>>
              ELSE /\ pending' = new
                   /\ hpc' = "append"
                   /\ merging' = [ file |-> ym, pre |-> Len(existing),
                                   post |-> Len(existing) + Len(new), active |-> TRUE ]
                   /\ UNCHANGED todo
    /\ UNCHANGED <<reqvars, limvars, tool, runs, args, from_uts, page, total_pages,
                   all_rows, tmp_file, remote, state_file, raw_files, out_files, curated,
                   raw_dumps, activities_ndjson,
                   detail_files, resume_k, requested, detailed, reported, interrupted, playing_seen, partial, idem, remote_changed, base, rows_after_429>>

\* merge_into_monthly_jsonl: fh.write of the next k rows reaches the file opened with "a";
\* after the last row the file is closed
merge_into_monthly_jsonl_write(k) ==
    /\ tool = "lastfm_ingest.main"
    /\ hpc = "append"
    /\ rpc = "idle"
    /\ k \in 1..Len(pending)
    /\ LET ym == Head(todo).ym
       IN  out_files' = write_file(out_files, ym,
                                   file_rows(out_files, ym) \o SubSeq(pending, 1, k))
    /\ pending' = SubSeq(pending, k + 1, Len(pending))
    /\ summary' = [ summary EXCEPT !.inserted = @ + k ]
    /\ IF k = Len(pending)
       THEN /\ hpc' = "merge"
            /\ todo' = Tail(todo)
            /\ merging' = NoMerge
       ELSE UNCHANGED <<hpc, todo, merging>>
    /\ UNCHANGED <<reqvars, limvars, tool, runs, args, from_uts, page, total_pages,
                   all_rows, tmp_file, remote, state_file, raw_files, curated, raw_dumps, activities_ndjson,
                   detail_files,
                   resume_k, requested, detailed, reported, interrupted, playing_seen, partial, idem, remote_changed, base, rows_after_429>>

\* main() returns after merge_into_monthly_jsonl
ingest_return ==
    /\ tool = "lastfm_ingest.main"
    /\ hpc = "merge"
    /\ rpc = "idle"
    /\ todo = << >>
    /\ hpc' = "done"
    /\ UNCHANGED <<reqvars, limvars, tool, runs, args, from_uts, page, total_pages,
                   all_rows, todo, pending, tmp_file, remote, state_file, raw_files,
                   out_files, curated, raw_dumps, activities_ndjson,
                   detail_files, summary, gvars>>

\* ------------------------------------------------------------------------
\* main.py: main()
\* ------------------------------------------------------------------------
\* the JSON objects {"#text": ...} of the rows of the model, each with its "#text"
DictText ==
    [ v \in { "{#text: A}", "{#text: B}", "{#text: Song}", "{#text: Other}",
              "{#text: Feb Song}", "{#text: Album}", "{#text: }" }
        |-> CASE v = "{#text: A}" -> "A"
              [] v = "{#text: B}" -> "B"
              [] v = "{#text: Song}" -> "Song"
              [] v = "{#text: Other}" -> "Other"
              [] v = "{#text: Feb Song}" -> "Feb Song"
              [] v = "{#text: Album}" -> "Album"
              [] v = "{#text: }" -> "" ]

\* int(text) of the decimal texts of the model
int(text) ==
    CASE text = "1704067200" -> 1704067200
      [] text = "1704153600" -> 1704153600
      [] text = "1706745600" -> 1706745600

\* row.get(key)
get(row, key) == IF key \in DOMAIN row THEN row[key] ELSE None

\* _normalize_text that takes a dict as a text
_normalize_text_no_dict(value) == IF value = None THEN "" ELSE value

\* _normalize_text of a text, a dict with "#text", or None
_normalize_text(value) ==
    LET v == IF value \in DOMAIN DictText THEN DictText[value] ELSE value
    IN  IF v = None THEN "" ELSE v

\* extract_uts: the top-level uts, else the uts nested under date (a set: empty is None)
extract_uts(row) ==
    IF "uts" \in DOMAIN row THEN { row.uts }
    ELSE IF "date" \in DOMAIN row /\ "uts" \in DOMAIN row.date THEN { int(row.date.uts) }
    ELSE {}

\* a or b of two texts
or(a, b) == IF a \in {None, ""} THEN b ELSE a

\* existing_for_key of merge_raw_monthly_jsonl
existing_for_key(existing) ==
    [ uts    |-> SetMax(extract_uts(existing)),
      artist |-> _normalize_text(get(existing, "artist")),
      track  |-> _normalize_text(or(get(existing, "track"), get(existing, "name"))),
      album  |-> _normalize_text(get(existing, "album")) ]

\* row_key
row_key(row) ==
    <<row.uts, _normalize_text(get(row, "artist")),
      _normalize_text(or(get(row, "track"), get(row, "name"))),
      _normalize_text(get(row, "album"))>>

\* load_last_uts_from_raw
load_last_uts_from_raw(files) ==
    LET all == UNION { UNION { extract_uts(r) : r \in Range(f.rows) } : f \in files }
    IN  IF all = {} THEN {} ELSE { SetMax(all) }

\* determine_from_uts that starts at the newest stored timestamp itself
determine_from_uts_boundary(files, state_uts) ==
    IF load_last_uts_from_raw(files) # {} THEN { SetMax(load_last_uts_from_raw(files)) }
    ELSE IF state_uts # {} THEN { SetMax(state_uts) }
    ELSE {}

\* determine_from_uts: the raw files first, then the state file, else the full history
determine_from_uts(files, state_uts) ==
    IF load_last_uts_from_raw(files) # {} THEN { SetMax(load_last_uts_from_raw(files)) + 1 }
    ELSE IF state_uts # {} THEN { SetMax(state_uts) + 1 }
    ELSE {}

\* normalize of main.py raises KeyError at it["date"] of an item that is not playing
normalize_raises(items) ==
    \E i \in DOMAIN items : ~items[i].nowplaying /\ ~items[i].dated

\* merged.setdefault(row_key(row), row): the row of an existing key is kept
dict_setdefault(merged, row) ==
    IF \E i \in DOMAIN merged : row_key(existing_for_key(merged[i])) = row_key(existing_for_key(row))
    THEN merged
    ELSE Append(merged, row)

\* merged[row_key(row)] = row: the value of an existing key is replaced in its place,
\* a new key goes to the end; merged holds the rows, the key of a row is the key of its
\* existing_for_key (for a normalized row its row_key)
dict_set(merged, row) ==
    IF \E i \in DOMAIN merged : row_key(existing_for_key(merged[i])) = row_key(existing_for_key(row))
    THEN [ i \in DOMAIN merged |->
               IF row_key(existing_for_key(merged[i])) = row_key(existing_for_key(row))
               THEN row
               ELSE merged[i] ]
    ELSE Append(merged, row)

RECURSIVE dict_set_all(_, _)
dict_set_all(merged, rows) ==
    IF rows = << >> THEN merged
    ELSE dict_set_all(dict_set(merged, Head(rows)), Tail(rows))

\* sorted_rows of merge_raw_monthly_jsonl for one month file
sorted_rows(existing, month_rows) ==
    sort_by_uts(dict_set_all(dict_set_all(<< >>, existing), month_rows))

\* main(): determine_from_uts
main_start ==
    /\ tool = "main"
    /\ start_process(NoArgs, determine_from_uts(raw_files, state_file), "loop")
    /\ UNCHANGED limiter

\* main(): one iteration of while True: fetch_page, normalize, the two breaks
main_page(o, extra) ==
    /\ tool = "main"
    /\ hpc = "loop"
    /\ rpc = "idle"
    /\ requested' = Append(requested, page)
    /\ detailed' = detailed
    /\ LET payload == recenttracks(remote, from_uts, page, PageLimit, extra)
           rows    == normalize(payload.track)
       IN  IF o # Http(200)
           THEN /\ rpc' = "exit"
                /\ error' = exception_of(o)
                /\ UNCHANGED <<hpc, page, all_rows, playing_seen, reported>>
           ELSE IF normalize_raises(payload.track)
           THEN /\ rpc' = "exit"
                /\ error' = "KeyError"
                /\ UNCHANGED <<hpc, page, all_rows, playing_seen, reported>>
           ELSE IF rows = << >>
           THEN /\ hpc' = "after_loop"
                /\ playing_seen' = saw_playing(extra)
                /\ reported' = Append(reported, payload.totalPages)
                /\ UNCHANGED <<rpc, error, page, all_rows>>
           ELSE /\ all_rows' = all_rows \o rows
                /\ IF page >= payload.totalPages
                   THEN hpc' = "after_loop" /\ page' = page
                   ELSE hpc' = "loop" /\ page' = page + 1
                /\ playing_seen' = saw_playing(extra)
                /\ reported' = Append(reported, payload.totalPages)
                /\ UNCHANGED <<rpc, error>>
    /\ UNCHANGED <<requester, attempt, calls, http_calls, http_total, acquired, sleeps,
                   last_sleep, last_status, n429, limvars, tool, runs, args, from_uts,
                   total_pages, todo, pending, tmp_file, remote, state_file, raw_files,
                   out_files, curated, raw_dumps, activities_ndjson,
                   detail_files, summary, resume_k, interrupted, partial, idem,
                   remote_changed, base, merging, rows_after_429>>

\* main(): drop_duplicates, merge_raw_monthly_jsonl builds by_month
merge_raw_monthly_jsonl_call ==
    /\ tool = "main"
    /\ hpc = "after_loop"
    /\ rpc = "idle"
    /\ all_rows # << >>
    /\ todo' = group_by_month(drop_duplicates(all_rows))
    /\ hpc' = "merge_raw"
    /\ UNCHANGED <<reqvars, limvars, tool, runs, args, from_uts, page, total_pages,
                   all_rows, pending, tmp_file, remote, state_file, raw_files, out_files,
                   curated, raw_dumps, activities_ndjson,
                   detail_files, summary, gvars>>

\* merge_raw_monthly_jsonl: one month, up to the complete .jsonl.tmp file
merge_raw_monthly_jsonl_tmp ==
    /\ tool = "main"
    /\ hpc = "merge_raw"
    /\ rpc = "idle"
    /\ todo # << >>
    /\ LET ym       == Head(todo).ym
           existing == file_rows(raw_files, ym)
           new      == sorted_rows(existing, Head(todo).rows)
       IN  /\ tmp_file' = { [ ym |-> ym, rows |-> new ] }
           /\ merging' = [ file |-> ym, pre |-> Len(existing), post |-> Len(new),
                           active |-> TRUE ]
    /\ hpc' = "replace"
    /\ UNCHANGED <<reqvars, limvars, tool, runs, args, from_uts, page, total_pages,
                   all_rows, todo, pending, remote, state_file, raw_files, out_files,
                   curated, raw_dumps, activities_ndjson,
                   detail_files, summary, resume_k, requested, detailed, reported, interrupted, playing_seen, partial, idem, remote_changed, base,
                   rows_after_429>>

\* merge_raw_monthly_jsonl: tmp_path.replace(month_file)
merge_raw_monthly_jsonl_replace ==
    /\ tool = "main"
    /\ hpc = "replace"
    /\ rpc = "idle"
    /\ raw_files' = write_file(raw_files, Head(todo).ym, file_rows(tmp_file, Head(todo).ym))
    /\ tmp_file' = {}
    /\ todo' = Tail(todo)
    /\ merging' = NoMerge
    /\ hpc' = "merge_raw"
    /\ UNCHANGED <<reqvars, limvars, tool, runs, args, from_uts, page, total_pages,
                   all_rows, pending, remote, state_file, out_files, curated, raw_dumps, activities_ndjson,
                   detail_files, summary,
                   resume_k, requested, detailed, reported, interrupted, playing_seen, partial, idem, remote_changed, base, rows_after_429>>

\* main(): append_parquet_partitions(df) after the last month file: its groupby
append_parquet_partitions_call ==
    /\ tool = "main"
    /\ hpc = "merge_raw"
    /\ rpc = "idle"
    /\ todo = << >>
    /\ todo' = groupby_year_month(drop_duplicates(all_rows))
    /\ hpc' = "partitions"
    /\ UNCHANGED <<reqvars, limvars, tool, runs, args, from_uts, page, total_pages,
                   all_rows, pending, tmp_file, remote, state_file, raw_files, out_files,
                   curated, raw_dumps, activities_ndjson,
                   detail_files, summary, gvars>>

\* ------------------------------------------------------------------------
\* strava_pull.py: main()
\* ------------------------------------------------------------------------
\* one element of /athlete/activities; start_date as unix time (the ISO texts of the
\* API sort as their times do)
Activity(id, start_date, type) == [ id |-> id, start_date |-> start_date, type |-> type ]

\* the activities an athlete of the model can have
ActivityUniverse ==
    { Activity(11, 1704067200, "Run"),
      Activity(12, 1706745600, "Ride"),
      Activity(13, 1706745700, "Swim") }

DEFAULT_TYPES ==
    { "Ride", "VirtualRide", "GravelRide", "EBikeRide", "Walk", "Hike", "TrailRun", "Run" }

\* the command lines of the model: no option, --force
StravaArgs == { [ force |-> FALSE ], [ force |-> TRUE ] }

\* activities newest first
RECURSIVE newest_started_first(_)
newest_started_first(S) ==
    IF S = {} THEN << >>
    ELSE LET m == CHOOSE x \in S : \A y \in S : y.start_date <= x.start_date
         IN  <<m>> \o newest_started_first(S \ {m})

\* the response of /athlete/activities for (after, page, per_page)
athlete_activities(account, after, pg, per_page) ==
    LET matching == { a \in account : \A t \in after : a.start_date > t }
        sorted   == newest_started_first(matching)
        lo       == (pg - 1) * per_page + 1
        hi       == Min(pg * per_page, Len(sorted))
    IN  IF lo > Len(sorted) THEN << >> ELSE SubSeq(sorted, lo, hi)

\* load_existing_activities: latest_timestamp of the lines of activities.ndjson
latest_timestamp(activities) ==
    IF activities = << >> THEN {}
    ELSE { SetMax({ a.start_date : a \in Range(activities) }) }

\* main(): after_param without --after
after_param(a, activities) ==
    IF ~a.force /\ latest_timestamp(activities) # {}
    THEN { SetMax(latest_timestamp(activities)) - 7 * 24 * 60 * 60 }
    ELSE {}

\* activity_map.setdefault(activity_id, activity): the stored activity is kept
activity_map_setdefault(m, activity) ==
    IF \E i \in DOMAIN m : m[i].id = activity.id THEN m ELSE Append(m, activity)

\* activity_map[activity_id] = activity
activity_map_set(m, activity) ==
    IF \E i \in DOMAIN m : m[i].id = activity.id
    THEN [ i \in DOMAIN m |-> IF m[i].id = activity.id THEN activity ELSE m[i] ]
    ELSE Append(m, activity)

RECURSIVE activity_map_set_all(_, _)
activity_map_set_all(m, activities) ==
    IF activities = << >> THEN m
    ELSE activity_map_set_all(activity_map_set(m, Head(activities)), Tail(activities))

\* final_activities.sort(key=start_date, reverse=True): stable, descending
RECURSIVE sort_by_start_date_reverse(_)
sort_by_start_date_reverse(q) ==
    IF q = << >> THEN << >>
    ELSE LET m == CHOOSE i \in DOMAIN q :
                      /\ \A j \in DOMAIN q : q[i].start_date >= q[j].start_date
                      /\ \A j \in DOMAIN q : q[j].start_date = q[i].start_date => i <= j
         IN  <<q[m]>>
             \o sort_by_start_date_reverse(SubSeq(q, 1, m - 1) \o SubSeq(q, m + 1, Len(q)))

\* sorted(ids)
RECURSIVE sorted(_)
sorted(S) ==
    IF S = {} THEN << >>
    ELSE LET m == CHOOSE x \in S : \A y \in S : x <= y
         IN  <<m>> \o sorted(S \ {m})

\* args.max_pages: the value of --max-pages, or its default
args_max_pages == IF "max_pages" \in DOMAIN args THEN args.max_pages ELSE max_pages

\* existing_activities of main(): nothing is loaded with --force
existing_activities_of(a, file) == IF a.force THEN << >> ELSE file

\* main() up to fetch_athlete: a fresh StravaRateLimiter(), load_existing_activities
strava_start(a) ==
    /\ tool = "strava_pull.main"
    /\ start_process(a, after_param(a, activities_ndjson), "athlete")
    /\ limiter' = StravaRateLimiter(100, 15 * 60, 1000, safety_margin)

\* the calls of request_json by fetch_athlete, fetch_stats, fetch_activities and
\* fetch_activity_details
strava_request ==
    /\ tool = "strava_pull.main"
    /\ rpc = "idle"
    /\ \/ hpc = "athlete" /\ hpc' = "athlete_get"
       \/ hpc = "stats" /\ hpc' = "stats_get"
       \/ hpc = "loop" /\ page <= args_max_pages /\ hpc' = "fetching"
       \/ hpc = "details" /\ todo # << >> /\ hpc' = "details_get"
    /\ attempt' = 0
    /\ http_calls' = 0
    /\ sleeps' = 0
    /\ last_sleep' = 0
    /\ last_status' = NoOutcome
    /\ n429' = 0
    /\ rpc' = "wait"
    /\ requested' = IF hpc = "loop" THEN Append(requested, page) ELSE requested
    /\ detailed' = IF hpc = "details" THEN Append(detailed, Head(todo)) ELSE detailed
    /\ UNCHANGED <<requester, calls, http_total, acquired, error, limvars, tool, runs, args,
                   from_uts, page, total_pages, all_rows, todo, pending, tmp_file, remote,
                   state_file, raw_files, out_files, curated, raw_dumps, activities_ndjson,
                   detail_files, summary, resume_k, reported, interrupted, partial, playing_seen, idem,
                   remote_changed, base, merging, rows_after_429>>

\* fetch_athlete and fetch_stats after request_json returned: athlete.json, stats.json
strava_profile ==
    /\ tool = "strava_pull.main"
    /\ rpc = "idle"
    /\ \/ hpc = "athlete_get" /\ hpc' = "stats"
       \/ hpc = "stats_get" /\ hpc' = "loop"
    /\ forget_fetch
    /\ UNCHANGED <<requester, rpc, calls, http_total, acquired, error, limvars, tool, runs,
                   args, from_uts, page, total_pages, all_rows, todo, pending, tmp_file,
                   remote, state_file, raw_files, out_files, curated, raw_dumps,
                   activities_ndjson, detail_files, summary, gvars>>

\* fetch_activities without the break at an empty batch
fetch_activities_page_no_break ==
    /\ tool = "strava_pull.main"
    /\ hpc = "fetching"
    /\ rpc = "idle"
    /\ LET batch == athlete_activities(remote, from_uts, page, PageLimit)
       IN  IF FALSE
           THEN /\ hpc' = "merge"
                /\ UNCHANGED <<all_rows, page, rows_after_429>>
           ELSE /\ all_rows' = all_rows \o SelectSeq(batch, LAMBDA a : a.type \in DEFAULT_TYPES)
                /\ rows_after_429' =
                       IF n429 >= 1 /\ n429 = http_calls - 1
                       THEN rows_after_429 \cup { a \in Range(batch) : a.type \in DEFAULT_TYPES }
                       ELSE rows_after_429
                /\ page' = page + 1
                /\ hpc' = IF page + 1 <= args_max_pages THEN "loop" ELSE "merge"
    /\ forget_fetch
    /\ UNCHANGED <<requester, rpc, calls, http_total, acquired, error, limvars, tool, runs,
                   args, from_uts, total_pages, todo, pending, tmp_file, remote, state_file,
                   raw_files, out_files, curated, raw_dumps, activities_ndjson,
                   detail_files, summary, resume_k, requested, detailed, reported, interrupted, playing_seen, partial, idem, remote_changed, base, merging>>

\* fetch_activities: the loop body after request_json returned the batch
fetch_activities_page ==
    /\ tool = "strava_pull.main"
    /\ hpc = "fetching"
    /\ rpc = "idle"
    /\ LET batch == athlete_activities(remote, from_uts, page, PageLimit)
       IN  IF batch = << >>
           THEN /\ hpc' = "merge"
                /\ UNCHANGED <<all_rows, page, rows_after_429>>
           ELSE /\ all_rows' = all_rows \o SelectSeq(batch, LAMBDA a : a.type \in DEFAULT_TYPES)
                /\ rows_after_429' =
                       IF n429 >= 1 /\ n429 = http_calls - 1
                       THEN rows_after_429 \cup { a \in Range(batch) : a.type \in DEFAULT_TYPES }
                       ELSE rows_after_429
                /\ page' = page + 1
                /\ hpc' = IF page + 1 <= args_max_pages THEN "loop" ELSE "merge"
    /\ forget_fetch
    /\ UNCHANGED <<requester, rpc, calls, http_total, acquired, error, limvars, tool, runs,
                   args, from_uts, total_pages, todo, pending, tmp_file, remote, state_file,
                   raw_files, out_files, curated, raw_dumps, activities_ndjson,
                   detail_files, summary, resume_k, requested, detailed, reported, interrupted, playing_seen, partial, idem, remote_changed, base, merging>>

\* new_activity_ids that takes every fetched id for new
new_activity_ids_all(existing, fetched) == { a.id : a \in Range(fetched) }

\* new_activity_ids of main()
new_activity_ids(existing, fetched) ==
    { a.id : a \in Range(fetched) } \ { a.id : a \in Range(existing) }

\* main(): activity_map, final_activities, write_json and write_ndjson
strava_write_activities ==
    /\ tool = "strava_pull.main"
    /\ hpc = "merge"
    /\ rpc = "idle"
    /\ LET existing == existing_activities_of(args, activities_ndjson)
           merged   == activity_map_set_all(activity_map_set_all(<< >>, existing), all_rows)
       IN  /\ activities_ndjson' = sort_by_start_date_reverse(merged)
           /\ todo' = sorted(new_activity_ids(existing, all_rows))
    /\ hpc' = "details"
    /\ UNCHANGED <<reqvars, limvars, tool, runs, args, from_uts, page, total_pages,
                   all_rows, pending, tmp_file, remote, state_file, raw_files, out_files,
                   curated, raw_dumps, detail_files, summary, gvars>>

\* fetch_activity_details after request_json returned: activities/<id>.json
strava_details ==
    /\ tool = "strava_pull.main"
    /\ hpc = "details_get"
    /\ rpc = "idle"
    /\ detail_files' = detail_files \cup { Head(todo) }
    /\ UNCHANGED summary
    /\ todo' = Tail(todo)
    /\ hpc' = "details"
    /\ forget_fetch
    /\ UNCHANGED <<requester, rpc, calls, http_total, acquired, error, limvars, tool, runs,
                   args, from_uts, page, total_pages, all_rows, pending, tmp_file, remote,
                   state_file, raw_files, out_files, curated, raw_dumps, activities_ndjson,
                   gvars>>

\* main() returns after the last detail request
strava_return ==
    /\ tool = "strava_pull.main"
    /\ hpc = "details"
    /\ rpc = "idle"
    /\ todo = << >>
    /\ hpc' = "done"
    /\ UNCHANGED <<reqvars, limvars, tool, runs, args, from_uts, page, total_pages,
                   all_rows, todo, pending, tmp_file, remote, state_file, raw_files,
                   out_files, curated, raw_dumps, activities_ndjson, detail_files, summary, gvars>>

\* ------------------------------------------------------------------------
\* The clock
\* ------------------------------------------------------------------------
Tick ==
    /\ rpc # "exit"
    /\ requester = "request_json"
    /\ now < MaxTime
    /\ now' = now + 1
    /\ UNCHANGED <<reqvars, limiter, slot_sleeps,
                   hvars, gvars>>

\* ------------------------------------------------------------------------
\* One process issuing fetches through one of the two fetch functions
\* ------------------------------------------------------------------------
InitReq ==
    /\ requester \in {"request_json", "fetch_page_with_retries"}
    /\ rpc = "idle"
    /\ attempt = 0
    /\ calls = 0
    /\ http_calls = 0
    /\ http_total = 0
    /\ acquired = 0
    /\ sleeps = 0
    /\ last_sleep = 0
    /\ last_status = NoOutcome
    /\ n429 = 0
    /\ error = None
    /\ now = 0
    /\ slot_sleeps = 0
    /\ limiter = StravaRateLimiter(ShortWindowLimitArg, ShortWindowSeconds,
                                   DailyLimitArg, safety_margin)
    /\ tool = "none"
    /\ hpc = "idle"
    /\ runs = 0
    /\ args = NoArgs
    /\ from_uts = {}
    /\ page = 1
    /\ total_pages = 1
    /\ all_rows = << >>
    /\ todo = << >>
    /\ pending = << >>
    /\ tmp_file = {}
    /\ remote = {}
    /\ state_file = {}
    /\ raw_files = {}
    /\ out_files = {}
    /\ curated = {}
    /\ raw_dumps = {}
    /\ activities_ndjson = << >>
    /\ detail_files = {}
    /\ summary = NoSummary
    /\ resume_k = 0
    /\ requested = << >>
    /\ detailed = << >>
    /\ reported = << >>
    /\ interrupted = {}
    /\ playing_seen = FALSE
    /\ partial = "no"
    /\ idem = FALSE
    /\ remote_changed = FALSE
    /\ base = NoBase
    /\ merging = NoMerge
    /\ rows_after_429 = {}

NextReq ==
    \/ request_json_call
    \/ wait_for_slot_raise
    \/ wait_for_slot_return
    \/ wait_for_slot_sleep
    \/ \E o \in Outcomes : request_json_get(o)
    \/ note_request
    \/ request_json_rate_limited
    \/ request_json_raise_for_status
    \/ request_json_return
    \/ fetch_page_with_retries_call
    \/ \E o \in Outcomes : fetch_page_with_retries_return(o)
    \/ \E o \in Outcomes, j \in JitterMs : fetch_page_with_retries_retry(o, j)
    \/ \E o \in Outcomes : fetch_page_with_retries_raise(o)
    \/ Tick

SpecReq == InitReq /\ [][NextReq]_vars

\* ------------------------------------------------------------------------
\* The Last.fm tools, run one process after the other on an account that may grow
\* ------------------------------------------------------------------------
Tools == {"lastfm_ingest.run", "lastfm_ingest.main", "main", "strava_pull.main"}

\* what the account of a tool can hold
account_universe(t) == IF t = "strava_pull.main" THEN ActivityUniverse ELSE Universe

requester_of(t) ==
    IF t = "lastfm_ingest.run" THEN "fetch_page_with_retries"
    ELSE IF t = "strava_pull.main" THEN "request_json"
    ELSE IF t = "main" THEN "fetch_page"
    ELSE "requests.get"

\* what main.py finds on the disk of a host it has run on before: nothing; a state file
\* whose raw directory is gone; a raw directory newer than the state file (a run that
\* ended between merge_raw_monthly_jsonl and save_last_uts)
PriorHistory(t) ==
    { [ raw_files |-> {}, state_file |-> {} ] }
    \cup (IF t # "main" THEN {}
          ELSE { [ raw_files |-> {}, state_file |-> {1704067200} ],
                 [ raw_files |-> { [ ym |-> <<2024, 1>>,
                                     rows |-> << [ uts |-> 1704153600, artist |-> "A",
                                                   track |-> "Other", album |-> "AL",
                                                   mbid_track |-> None ] >> ] },
                   state_file |-> {1704067200} ] })

Init ==
    /\ tool \in Tools
    /\ requester = requester_of(tool)
    /\ rpc = "idle"
    /\ attempt = 0
    /\ calls = 0
    /\ http_calls = 0
    /\ http_total = 0
    /\ acquired = 0
    /\ sleeps = 0
    /\ last_sleep = 0
    /\ last_status = NoOutcome
    /\ n429 = 0
    /\ error = None
    /\ now = StartTime
    /\ slot_sleeps = 0
    /\ limiter = StravaRateLimiter(100, 15 * 60, 1000, safety_margin)
    /\ hpc = "idle"
    /\ runs = 0
    /\ args = NoArgs
    /\ from_uts = {}
    /\ page = 1
    /\ total_pages = 1
    /\ all_rows = << >>
    /\ todo = << >>
    /\ pending = << >>
    /\ tmp_file = {}
    /\ remote \in SUBSET account_universe(tool)
    /\ \E h \in PriorHistory(tool) : state_file = h.state_file /\ raw_files = h.raw_files
    /\ out_files = {}
    /\ curated = {}
    /\ raw_dumps = {}
    /\ activities_ndjson = << >>
    /\ detail_files = {}
    /\ summary = NoSummary
    /\ resume_k = 0
    /\ requested = << >>
    /\ detailed = << >>
    /\ reported = << >>
    /\ interrupted = {}
    /\ playing_seen = FALSE
    /\ partial = "no"
    /\ idem = FALSE
    /\ remote_changed = FALSE
    /\ base = NoBase
    /\ merging = NoMerge
    /\ rows_after_429 = {}

\* the responses a run of the tools meets
RunOutcomes == { Http(200), Http(429), Timeout }

\* (neither window of the fresh StravaRateLimiter() of a process fills within the
\* requests of a run of the model: wait_for_slot returns at its first iteration)
\* the responses a Strava run meets: 429 on the first page of activities of the first
\* process, 200 or 500 everywhere
StravaRunOutcomes ==
    { Http(200), Http(500) }
    \cup (IF runs = 1 /\ hpc = "fetching" /\ page = 1 THEN { Http(429) } ELSE {})

\* random.uniform(0, 0.3) of a run, in milliseconds: its two ends
RunJitterMs == { 0, 300 }

Next ==
    \/ \E a \in RunArgs : run_start(a)
    \/ run_fetch_page
    \/ \E o \in RunOutcomes : fetch_page_with_retries_return(o)
    \/ \E o \in RunOutcomes, j \in RunJitterMs : fetch_page_with_retries_retry(o, j)
    \/ \E o \in RunOutcomes : fetch_page_with_retries_raise(o)
    \/ \E x \in Extras : run_page(x)
    \/ run_no_rows
    \/ run_write_raw_jsonl
    \/ append_parquet_partitions_group
    \/ save_last_uts
    \/ \E a \in IngestArgs : ingest_start(a)
    \/ \E o \in RunOutcomes, x \in Extras : fetch_recent_tracks_page(o, x)
    \/ merge_into_monthly_jsonl_call
    \/ merge_into_monthly_jsonl_file
    \/ \E k \in 1..2 : merge_into_monthly_jsonl_write(k)
    \/ ingest_return
    \/ main_start
    \/ \E o \in RunOutcomes, x \in Extras : main_page(o, x)
    \/ merge_raw_monthly_jsonl_call
    \/ merge_raw_monthly_jsonl_tmp
    \/ merge_raw_monthly_jsonl_replace
    \/ append_parquet_partitions_call
    \/ \E a \in StravaArgs : strava_start(a)
    \/ strava_request
    \/ wait_for_slot_return
    \/ \E o \in StravaRunOutcomes : request_json_get(o)
    \/ note_request
    \/ request_json_rate_limited
    \/ request_json_raise_for_status
    \/ request_json_return
    \/ strava_profile
    \/ fetch_activities_page
    \/ strava_write_activities
    \/ strava_details
    \/ strava_return
    \/ Kill
    \/ Exit
    \/ \E t \in account_universe(tool) : RemoteGrow(t)
    \/ TimePasses

Spec == Init /\ [][Next]_vars

\* ------------------------------------------------------------------------
\* The merge functions called on rows of the caller's choice
\* ------------------------------------------------------------------------
MergeTools == {"lastfm_ingest.main", "main", "strava_pull.main"}

\* rows a caller passes: two of January 2024, one of them in two versions that differ in
\* the MusicBrainz id only, and one of February 2024; for Strava an activity in two
\* versions that differ in the type, and another activity
MergeRows(t) ==
    IF t = "main"
    THEN { [ uts |-> 1704067200, artist |-> "A", track |-> "Song", album |-> None,
             mbid_track |-> m ] : m \in {"old", "new"} }
         \cup { [ uts |-> 1704153600, artist |-> "A", track |-> "Other", album |-> None,
                  mbid_track |-> "keep" ],
                [ uts |-> 1706745600, artist |-> "B", track |-> "Feb Song", album |-> "Album",
                  mbid_track |-> None ] }
    ELSE IF t = "lastfm_ingest.main"
    THEN { [ uts |-> 1704067200, artist |-> "A", track |-> "Song", album |-> None,
             mbid |-> m ] : m \in {"old", "new"} }
         \cup { [ uts |-> 1704153600, artist |-> "A", track |-> "Other", album |-> None,
                  mbid |-> "keep" ],
                [ uts |-> 1706745600, artist |-> "B", track |-> "Feb Song", album |-> "Album",
                  mbid |-> None ] }
    ELSE { Activity(11, 1704067200, "Run"), Activity(11, 1704067200, "Ride"),
           Activity(12, 1706745600, "Ride") }

\* the lists of one to MaxBatch elements of S
Batches(S) == UNION { [1..n -> S] : n \in 1..MaxBatch }

InitMerge ==
    /\ Init
    /\ tool \in MergeTools
    /\ remote = {}
    /\ state_file = {}
    /\ raw_files = {}

\* merge_raw_monthly_jsonl(rows), merge_into_monthly_jsonl(rows), or the merge of main()
\* of strava_pull.py on fetched_activities = rows, up to the grouping by month
merge_rows(rows) ==
    /\ hpc = "idle"
    /\ rpc = "idle"
    /\ runs < MaxMerges
    /\ runs' = runs + 1
    /\ all_rows' = rows
    /\ IF tool = "main"
       THEN /\ todo' = group_by_month(rows)
            /\ hpc' = "merge_raw"
            /\ UNCHANGED <<args, summary>>
       ELSE IF tool = "lastfm_ingest.main"
       THEN /\ todo' = group_by_month(rows)
            /\ summary' = [ inserted |-> 0, deduped |-> 0,
                            files_touched |-> Len(group_by_month(rows)) ]
            /\ hpc' = "merge"
            /\ UNCHANGED args
       ELSE /\ args' = [ force |-> FALSE ]
            /\ hpc' = "merge"
            /\ UNCHANGED <<todo, summary>>
    /\ UNCHANGED <<reqvars, limvars, tool, from_uts, page, total_pages, pending, tmp_file,
                   remote, state_file, raw_files, out_files, curated, raw_dumps,
                   activities_ndjson, detail_files, gvars>>

\* the merge function returns to its caller
merge_return ==
    /\ rpc = "idle"
    /\ \/ tool = "main" /\ hpc = "merge_raw" /\ todo = << >>
       \/ tool = "lastfm_ingest.main" /\ hpc = "merge" /\ todo = << >>
       \/ tool = "strava_pull.main" /\ hpc = "details"
    /\ hpc' = "idle"
    /\ all_rows' = << >>
    /\ todo' = << >>
    /\ summary' = NoSummary
    /\ UNCHANGED <<reqvars, limvars, tool, runs, args, from_uts, page, total_pages, pending,
                   tmp_file, remote, state_file, raw_files, out_files, curated, raw_dumps,
                   activities_ndjson, detail_files, gvars>>

NextMerge ==
    \/ \E rows \in Batches(MergeRows(tool)) : merge_rows(rows)
    \/ merge_rows(<< >>)
    \/ merge_raw_monthly_jsonl_tmp
    \/ merge_raw_monthly_jsonl_replace
    \/ merge_into_monthly_jsonl_file
    \/ \E k \in 1..MaxBatch : merge_into_monthly_jsonl_write(k)
    \/ strava_write_activities
    \/ merge_return

SpecMerge == InitMerge /\ [][NextMerge]_vars

\* a stored file holds a row twice (an earlier bug, two files concatenated by hand):
\* between two calls the first record of a file is appended to it once more
LatentDuplicate ==
    /\ hpc = "idle"
    /\ rpc = "idle"
    /\ \/ /\ tool = "main"
          /\ \E f \in raw_files :
                 /\ NoTwoEqualKeys(f.rows)
                 /\ raw_files' = write_file(raw_files, f.ym, Append(f.rows, f.rows[1]))
          /\ UNCHANGED <<out_files, activities_ndjson>>
       \/ /\ tool = "lastfm_ingest.main"
          /\ \E f \in out_files :
                 /\ NoTwoEqualKeys(f.rows)
                 /\ out_files' = write_file(out_files, f.ym, Append(f.rows, f.rows[1]))
          /\ UNCHANGED <<raw_files, activities_ndjson>>
       \/ /\ tool = "strava_pull.main"
          /\ activities_ndjson # << >>
          /\ \A i, j \in DOMAIN activities_ndjson :
                 i # j => activities_ndjson[i].id # activities_ndjson[j].id
          /\ activities_ndjson' = Append(activities_ndjson, activities_ndjson[1])
          /\ UNCHANGED <<raw_files, out_files>>
    /\ UNCHANGED <<reqvars, limvars, tool, hpc, runs, args, from_uts, page, total_pages,
                   all_rows, todo, pending, tmp_file, remote, state_file, curated,
                   raw_dumps, detail_files, summary, gvars>>

NextLatent ==
    \/ NextMerge
    \/ LatentDuplicate

SpecLatent == InitMerge /\ [][NextLatent]_vars

\* the row of a scrobble as older versions stored it, in the shape of the API: uts as a
\* text under date, artist and album as objects, the track under name
ApiShaped(row) ==
    [ date   |-> [ uts |-> CHOOSE t \in {"1704067200", "1704153600", "1706745600"} :
                               int(t) = row.uts ],
      artist |-> CHOOSE v \in DOMAIN DictText : DictText[v] = row.artist,
      name   |-> row.track,
      album  |-> CHOOSE v \in DOMAIN DictText : DictText[v] = _normalize_text(row.album) ]

\* the row of a scrobble with artist, track and album stored as objects
DictShaped(row) ==
    [ uts    |-> row.uts,
      artist |-> CHOOSE v \in DOMAIN DictText : DictText[v] = row.artist,
      track  |-> CHOOSE v \in DOMAIN DictText : DictText[v] = row.track,
      album  |-> CHOOSE v \in DOMAIN DictText : DictText[v] = _normalize_text(row.album) ]

\* an older version of main.py has left a month file with one row in a legacy shape
LegacyFile(row) ==
    /\ tool = "main"
    /\ hpc = "idle"
    /\ rpc = "idle"
    /\ runs = 0
    /\ raw_files = {}
    /\ raw_files' = { [ ym |-> year_month(SetMax(extract_uts(row))), rows |-> <<row>> ] }
    /\ UNCHANGED <<reqvars, limvars, tool, hpc, runs, args, from_uts, page, total_pages,
                   all_rows, todo, pending, tmp_file, remote, state_file, out_files,
                   curated, raw_dumps, activities_ndjson, detail_files, summary, gvars>>

NextLegacy ==
    \/ NextMerge
    \/ \E r \in MergeRows("main") : LegacyFile(ApiShaped(r)) \/ LegacyFile(DictShaped(r))

SpecLegacy == InitMerge /\ [][NextLegacy]_vars

\* ------------------------------------------------------------------------
\* The page loops of the four tools, the account changing between two pages
\* ------------------------------------------------------------------------
\* the command lines of a Strava run: no option, --max-pages MaxPagesArg
StravaPageArgs == { [ force |-> FALSE ], [ force |-> FALSE, max_pages |-> MaxPagesArg ] }

\* the account loses a scrobble or an activity (its owner deletes it) between two
\* processes or between two pages of a run
RemoteShrink(t) ==
    /\ hpc \in {"idle", "loop"}
    /\ rpc = "idle"
    /\ t \in remote
    /\ remote' = remote \ {t}
    /\ remote_changed' = TRUE
    /\ partial' = "no"
    /\ UNCHANGED <<reqvars, limvars, tool, hpc, runs, args, from_uts, page, total_pages,
                   all_rows, todo, pending, tmp_file, state_file, raw_files, out_files,
                   curated, raw_dumps, activities_ndjson, detail_files, summary, resume_k,
                   requested, detailed, reported, interrupted, playing_seen, idem, base, merging,
                   rows_after_429>>

\* the athlete edits an activity (here its type) between two processes or between two
\* pages of a run
RemoteEdit(a, type) ==
    /\ hpc \in {"idle", "loop"}
    /\ rpc = "idle"
    /\ a \in remote
    /\ type # a.type
    /\ remote' = (remote \ {a}) \cup { [ a EXCEPT !.type = type ] }
    /\ remote_changed' = TRUE
    /\ partial' = "no"
    /\ UNCHANGED <<reqvars, limvars, tool, hpc, runs, args, from_uts, page, total_pages,
                   all_rows, todo, pending, tmp_file, state_file, raw_files, out_files,
                   curated, raw_dumps, activities_ndjson, detail_files, summary, resume_k,
                   requested, detailed, reported, interrupted, playing_seen, idem, base, merging,
                   rows_after_429>>

\* the responses a Last.fm page request meets: 200, or a timeout
PageOutcomes == { Http(200), Timeout }

\* the steps of a process up to the end of its page loop
PageStep ==
    \/ run_fetch_page
    \/ \E o \in PageOutcomes : fetch_page_with_retries_return(o)
    \/ \E o \in PageOutcomes : fetch_page_with_retries_retry(o, 0)
    \/ \E o \in PageOutcomes : fetch_page_with_retries_raise(o)
    \/ \E x \in Extras : run_page(x)
    \/ \E o \in PageOutcomes, x \in Extras : fetch_recent_tracks_page(o, x)
    \/ \E o \in PageOutcomes, x \in Extras : main_page(o, x)
    \/ strava_request
    \/ wait_for_slot_return
    \/ \E o \in StravaRunOutcomes : request_json_get(o)
    \/ note_request
    \/ request_json_rate_limited
    \/ request_json_raise_for_status
    \/ request_json_return
    \/ strava_profile
    \/ fetch_activities_page

NextPages ==
    \/ \E a \in RunArgs : run_start(a)
    \/ \E a \in IngestArgs : ingest_start(a)
    \/ main_start
    \/ \E a \in StravaPageArgs : strava_start(a)
    \/ PageStep
    \/ \E t \in account_universe(tool) : RemoteGrow(t)
    \/ \E t \in account_universe(tool) : RemoteShrink(t)

SpecPages == Init /\ [][NextPages]_vars

\* a running process goes on executing its page loop
FairSpecPages == SpecPages /\ WF_vars(PageStep)

\* ------------------------------------------------------------------------
\* The runs of strava_pull.py on an account whose activities are added and edited
\* ------------------------------------------------------------------------
InitLibrary ==
    /\ Init
    /\ tool = "strava_pull.main"
    /\ remote = {}

\* the responses a request of these runs meets: 200, a 429 for the first page of the first
\* run, a 500 for a detail request
LibraryOutcomes ==
    { Http(200) }
    \cup (IF runs = 1 /\ hpc = "fetching" /\ page = 1 THEN { Http(429) } ELSE {})
    \cup (IF hpc = "details_get" THEN { Http(500) } ELSE {})

NextLibrary ==
    \/ \E a \in StravaArgs : strava_start(a)
    \/ strava_request
    \/ wait_for_slot_return
    \/ \E o \in LibraryOutcomes : request_json_get(o)
    \/ note_request
    \/ request_json_rate_limited
    \/ request_json_raise_for_status
    \/ request_json_return
    \/ strava_profile
    \/ fetch_activities_page
    \/ strava_write_activities
    \/ strava_details
    \/ strava_return
    \/ Exit
    \/ \E t \in ActivityUniverse : (\A a \in remote : a.id # t.id) /\ RemoteGrow(t)
    \/ \E a \in remote, type \in {"Run", "Ride"} :
           a.type \in {"Run", "Ride"} /\ RemoteEdit(a, type)

SpecLibrary == InitLibrary /\ [][NextLibrary]_vars

\* ------------------------------------------------------------------------
\* Properties of the two fetch functions and of the rate limiter
\* ------------------------------------------------------------------------
\* the steps of a fetch in progress
FetchStep ==
    \/ wait_for_slot_raise
    \/ wait_for_slot_return
    \/ wait_for_slot_sleep
    \/ \E o \in Outcomes : request_json_get(o)
    \/ note_request
    \/ request_json_rate_limited
    \/ request_json_raise_for_status
    \/ request_json_return
    \/ \E o \in Outcomes : fetch_page_with_retries_return(o)
    \/ \E o \in Outcomes, j \in JitterMs : fetch_page_with_retries_retry(o, j)
    \/ \E o \in Outcomes : fetch_page_with_retries_raise(o)

\* a running process goes on executing the fetch it is in
FairSpecReq == SpecReq /\ WF_vars(FetchStep)

\* timestamps of q younger than window at time t
InWindow(q, t, window) == { i \in DOMAIN q : t - q[i] < window }

\* the attempt limit of the fetch function in use
AttemptLimit == IF requester = "request_json" THEN MAX_RETRIES ELSE DEFAULT_MAX_RETRIES

\* the latest HTTP attempt has been dealt with by the fetch function
Handled == rpc \notin {"note", "status"}

\* C5: when the daily window holds daily_limit requests at a call of wait_for_slot, the
\* call raises the daily-limit SystemExit: it does not sleep, request_json makes no HTTP
\* call, and nothing follows in the process (time alone may pass before the call runs)
QuotaFailFast ==
    [][ /\ ( /\ rpc = "wait"
             /\ Cardinality(InWindow(limiter.daily_requests, now, DaySeconds))
                    >= limiter.daily_limit )
            => /\ http_total' = http_total
               /\ slot_sleeps' = slot_sleeps
               /\ sleeps' = sleeps
               /\ \/ rpc' = "exit" /\ error' = "SystemExit: daily limit" /\ now' = now
                  \/ rpc' = "wait" /\ now' = now + 1 /\ limiter' = limiter
        /\ error = "SystemExit: daily limit"
            => rpc = "exit" /\ rpc' = "exit" /\ http_total' = http_total
       ]_vars

QuotaFailFastWitness ==
    /\ rpc = "exit"
    /\ error = "SystemExit: daily limit"
    /\ attempt >= 1
    /\ Len(limiter.daily_requests) >= limiter.daily_limit

\* C6: request_json acquires a slot before each HTTP attempt, and at every instant the
\* requests recorded within the last short_window_seconds are at most the advertised
\* short limit minus the safety margin, those within the last day at most the advertised
\* daily limit minus the margin
LimiterWindows ==
    /\ Cardinality(InWindow(limiter.short_window_requests, now, ShortWindowSeconds))
           <= ShortWindowLimitArg - safety_margin
    /\ Cardinality(InWindow(limiter.daily_requests, now, DaySeconds))
           <= DailyLimitArg - safety_margin
    /\ requester = "request_json"
           => acquired = http_total + (IF rpc = "get" THEN 1 ELSE 0)

LimiterWindowsWitness ==
    /\ rpc = "get"
    /\ attempt >= 1
    /\ slot_sleeps >= 1
    /\ Cardinality(InWindow(limiter.short_window_requests, now, ShortWindowSeconds))
           = ShortWindowLimitArg - safety_margin - 1

\* C7: a fetch makes at most N HTTP attempts, returns only after a successful attempt,
\* raises its retries-exhausted error only after N failed attempts, and always ends
BoundedFetch ==
    /\ [](http_calls <= AttemptLimit)
    /\ []((rpc = "idle" /\ http_calls >= 1) => Succeeds(last_status))
    /\ [](error \in {"RuntimeError", "SystemExit: retries"}
              => http_calls = AttemptLimit /\ ~Succeeds(last_status))
    /\ (rpc \notin {"idle", "exit"}) ~> (rpc \in {"idle", "exit"})

BoundedFetchWitness ==
    /\ rpc = "exit"
    /\ error = "SystemExit: retries"
    /\ http_calls = MAX_RETRIES
    /\ sleeps = MAX_RETRIES

\* C8: after a response with a 4xx status other than 429 the fetch has failed: no sleep
\* and no further attempt follows, the process ends with the HTTP error
NonRetryable4xxFailsAtOnce ==
    ( /\ last_status.kind = "http"
      /\ last_status.status \in 400..499
      /\ last_status.status # 429
      /\ Handled )
        => rpc = "exit" /\ error = "HTTPError"

\* C9: a fetch that failed on a timeout, a connection failure or a 429, 500, 502, 503,
\* 504 response had no attempt left (the daily quota apart)
TransientFailuresAreRetried ==
    ( /\ rpc = "exit"
      /\ error # "SystemExit: daily limit"
      /\ \/ last_status.kind \in {"Timeout", "ConnectionError"}
         \/ last_status.kind = "http" /\ last_status.status \in {429, 500, 502, 503, 504} )
        => http_calls = AttemptLimit

\* ------------------------------------------------------------------------
\* Properties of the runs of the tools
\* ------------------------------------------------------------------------
KeysOf(rows) == { scrobble_identity(r) : r \in rows }

\* the identity keys stored by the tool of this behaviour
StoredKeys ==
    IF tool = "lastfm_ingest.main"
    THEN UNION { KeysOf(Range(f.rows)) : f \in out_files }
    ELSE KeysOf(curated_rows(curated))

\* C1: after any sequence of runs no partition holds two records with the same identity
\* key (uts, artist, track, album), and of the records a completed run fetched one of
\* each key is stored
DedupComplete ==
    /\ \A f \in raw_files : NoTwoEqualKeys(f.rows)
    /\ \A f \in out_files : NoTwoEqualKeys(f.rows)
    /\ \A f \in curated : NoTwoEqualKeys(f.rows)
    /\ \A f, g \in curated :
           (f # g /\ f.ym = g.ym) => KeysOf(Range(f.rows)) \cap KeysOf(Range(g.rows)) = {}
    /\ (hpc = "done" /\ tool # "strava_pull.main") => KeysOf(Range(all_rows)) \subseteq StoredKeys

\* C2: a run that repeats a completed run while the remote holds nothing new leaves every
\* partition and the watermark as they were
Idempotent ==
    (idem /\ ~remote_changed /\ hpc = "done") => Storage = base

\* C3: the run of the Parquet tool that follows a run killed after K completed pages
\* requests page K + 1 first
ResumesAfterLastPage ==
    ( /\ tool = "lastfm_ingest.run"
      /\ resume_k > 0
      /\ hpc = "loop"
      /\ all_rows = << >> )
        => page = resume_k + 1

\* C4: while the merge of a partition file is in progress, the file holds either the
\* rows it had before the merge or the rows it has after it
AtomicMerge ==
    merging.active
        => LET files == IF tool = "main" THEN raw_files ELSE out_files
           IN  /\ Len(file_rows(files, merging.file)) \in {merging.pre, merging.post}
               /\ merging.pre > 0 => \E f \in files : f.ym = merging.file

\* the deterministic part of the first backoff sleep, and the largest jitter
BackoffUnit ==
    IF requester = "request_json" THEN BASE_DELAY ELSE DEFAULT_BACKOFF_BASE_SECONDS * 1000

BackoffJitterMax == IF requester = "request_json" THEN 0 ELSE 300

\* the records a run leaves in its output
RunOutput ==
    IF tool = "strava_pull.main" THEN Range(activities_ndjson) ELSE curated_rows(curated)

\* C10: a fetch that got k 429 responses and then a success slept k times; the n-th sleep
\* of a fetch lasts base * 2^(n-1) plus the jitter and is longer than the one before;
\* the records of a page fetched that way are in the output of the completed run
BackoffOn429 ==
    /\ []((rpc = "idle" /\ http_calls >= 2 /\ n429 = http_calls - 1) => sleeps = n429)
    /\ [][ sleeps' = sleeps + 1
             => /\ last_sleep' >= BackoffUnit * (2 ^ sleeps)
                /\ last_sleep' <= BackoffUnit * (2 ^ sleeps) + BackoffJitterMax
                /\ sleeps >= 1 => last_sleep' > last_sleep ]_vars
    /\ [](hpc = "done" => rows_after_429 \subseteq RunOutput)

BackoffOn429Witness ==
    /\ tool = "lastfm_ingest.run"
    /\ hpc = "done"
    /\ rows_after_429 # {}
    /\ Cardinality(curated) >= 2

\* ------------------------------------------------------------------------
\* Properties of the start cursor and of the watermark
\* ------------------------------------------------------------------------
\* the command line names a start: --full-refetch, --from-uts or --since
ExplicitStart(a) == a.full_refetch \/ a.from_uts # {} \/ a.since # {}

\* C11: a run started without an explicit start value after a run that was interrupted
\* takes the start cursor of the interrupted run, before the watermark and the bootstrap
\* default are looked at
CursorPrecedence ==
    ( /\ tool \in {"lastfm_ingest.run", "main"}
      /\ hpc # "idle"
      /\ interrupted # {}
      /\ ~ExplicitStart(args) )
        => from_uts \in interrupted

\* the timestamps of the raw JSONL files of main.py
RawUts == UNION { { r.uts : r \in Range(f.rows) } : f \in raw_files }

\* the timestamps the Parquet tool knows: the state file and the curated files
KnownUts == state_file \cup { r.uts : r \in curated_rows(curated) }

\* C12: a run without an explicit start that finds history starts one second after the
\* newest timestamp it knows: main.py takes the newest of the raw files before the state
\* file, and the state file only when the raw files hold no timestamp; the rows such a run
\* fetches are all newer than that boundary
CursorAfterWatermark ==
    /\ [][ (runs' = runs + 1 /\ tool = "main" /\ RawUts # {})
             => from_uts' = { SetMax(RawUts) + 1 } ]_vars
    /\ [][ (runs' = runs + 1 /\ tool = "main" /\ RawUts = {} /\ state_file # {})
             => from_uts' = { SetMax(state_file) + 1 } ]_vars
    /\ [][ ( /\ runs' = runs + 1
             /\ tool = "lastfm_ingest.run"
             /\ ~ExplicitStart(args')
             /\ KnownUts # {} )
             => from_uts' = { SetMax(KnownUts) + 1 } ]_vars
    /\ []( ( /\ tool \in {"lastfm_ingest.run", "main"}
             /\ ~ExplicitStart(args) )
             => \A i \in DOMAIN all_rows : \A f \in from_uts : all_rows[i].uts >= f )

\* main.py started on raw files newer than the state file and fetched a newer scrobble
CursorAfterWatermarkWitness ==
    /\ tool = "main"
    /\ hpc = "after_loop"
    /\ all_rows # << >>
    /\ state_file # {}
    /\ RawUts # {}
    /\ SetMax(RawUts) > SetMax(state_file)
    /\ from_uts = { SetMax(RawUts) + 1 }

PartitionsWritten ==
    /\ \A i \in DOMAIN all_rows :
           \E f \in curated :
               /\ f.ym = year_month(all_rows[i].uts)
               /\ f.stamp = now
               /\ scrobble_identity(all_rows[i]) \in KeysOf(Range(f.rows))
    /\ tool = "main"
           => \A i \in DOMAIN all_rows :
                  scrobble_identity(all_rows[i])
                      \in KeysOf(Range(file_rows(raw_files, year_month(all_rows[i].uts))))

\* C14: the state file is written by the last step of a run, when every partition of the
\* run has been written; a step that aborts a run (an exception or a kill) leaves the
\* state file alone and never follows that write
WatermarkAfterPartitions ==
    /\ [][ state_file' # state_file
             => /\ hpc # "done"
                /\ hpc' = "done"
                /\ PartitionsWritten
                /\ curated' = curated
                /\ raw_files' = raw_files ]_vars
    /\ [][ (rpc' = "exit" /\ rpc # "exit")
             => /\ state_file' = state_file
                /\ hpc # "done" ]_vars

\* the second run of the Parquet tool ran out of retries on its second page: the state
\* file holds what the first run wrote
WatermarkAfterPartitionsWitness ==
    /\ tool = "lastfm_ingest.run"
    /\ runs = 2
    /\ rpc = "exit"
    /\ error = "RuntimeError"
    /\ page = 2
    /\ all_rows # << >>
    /\ state_file # {}

\* the identity keys of the scrobbles of the account at or after the start cursors of c
RemoteKeysFrom(c) ==
    { <<t.uts, t.artist, t.name, OrNone(t.album)>> :
          t \in { u \in remote : \A f \in c : u.uts >= f } }

\* no partition holds a key twice
NoDuplicateStored ==
    /\ \A f \in raw_files : NoTwoEqualKeys(f.rows)
    /\ \A f \in curated : NoTwoEqualKeys(f.rows)
    /\ \A f, g \in curated :
           (f # g /\ f.ym = g.ym) => KeysOf(Range(f.rows)) \cap KeysOf(Range(g.rows)) = {}

\* C15: on an account that does not change, the run that repeats the command line of a
\* run killed between its first partition write and the write of the watermark leaves,
\* when it completes, every scrobble the killed run was fetching in the partitions, once
RerunAfterInterruption ==
    ( /\ tool \in {"lastfm_ingest.run", "main"}
      /\ hpc = "done"
      /\ partial = "rerun" )
        => /\ NoDuplicateStored
           /\ \A c \in interrupted :
                  /\ RemoteKeysFrom(c) \subseteq KeysOf(curated_rows(curated))
                  /\ tool = "main"
                         => RemoteKeysFrom(c)
                                \subseteq UNION { KeysOf(Range(f.rows)) : f \in raw_files }

\* ------------------------------------------------------------------------
\* Properties of the merges into the partition files
\* ------------------------------------------------------------------------
\* the number of identity keys of incoming that the rows of existing do not have
DistinctNewKeys(existing, incoming) ==
    Cardinality(KeysOf(Range(incoming)) \ KeysOf(Range(existing)))

\* C16: the merge of a batch into a month file whose rows have distinct identity keys
\* leaves the file with its old size plus the number of distinct keys of the batch the
\* file did not have (merge_into_monthly_jsonl and merge_raw_monthly_jsonl); the other
\* rows of the batch are counted as deduped, and inserted + deduped is the size of the batch
MergeSize ==
    /\ [][ (tool = "lastfm_ingest.main" /\ hpc = "append" /\ hpc' = "merge")
             => LET ym  == Head(todo).ym
                    new == file_rows(out_files', ym)
                    old == SubSeq(new, 1, merging.pre)
                IN  NoTwoEqualKeys(old)
                        => Len(new) = Len(old) + DistinctNewKeys(old, Head(todo).rows) ]_vars
    /\ [][ (tool = "lastfm_ingest.main" /\ hpc = "merge" /\ hpc' \in {"merge", "append"})
             => LET old == file_rows(out_files, Head(todo).ym)
                IN  summary'.deduped - summary.deduped
                        = Len(Head(todo).rows) - DistinctNewKeys(old, Head(todo).rows) ]_vars
    /\ [][ (tool = "main" /\ hpc = "replace" /\ hpc' = "merge_raw")
             => LET old == file_rows(raw_files, Head(todo).ym)
                    new == file_rows(raw_files', Head(todo).ym)
                IN  NoTwoEqualKeys(old)
                        => Len(new) = Len(old) + DistinctNewKeys(old, Head(todo).rows) ]_vars
    /\ []( (tool = "lastfm_ingest.main" /\ hpc = "done")
             => summary.inserted + summary.deduped = Len(all_rows) )

\* a run of the JSONL tool has inserted rows and deduped others
MergeSizeWitness ==
    /\ tool = "lastfm_ingest.main"
    /\ hpc = "done"
    /\ summary.inserted >= 1
    /\ summary.deduped >= 1

\* the rows stored in the month files of the two JSONL merges
StoredRows == UNION { Range(f.rows) : f \in out_files \cup raw_files }

\* the last row of rows that has the identity key k
LastWithKey(rows, k) ==
    rows[CHOOSE i \in DOMAIN rows :
             /\ scrobble_identity(rows[i]) = k
             /\ \A j \in DOMAIN rows : j > i => scrobble_identity(rows[j]) # k]

\* the last activity of activities that has the id
LastWithId(activities, id) ==
    activities[CHOOSE i \in DOMAIN activities :
                   /\ activities[i].id = id
                   /\ \A j \in DOMAIN activities : j > i => activities[j].id # id]

\* C17: a merge never changes or drops a stored record: a record that comes in with the
\* key of a stored one is discarded
FirstWriteWins ==
    [][ /\ \A r \in StoredRows : r \in StoredRows'
        /\ \A a \in Range(activities_ndjson) : a \in Range(activities_ndjson') ]_vars

\* C17, amended: merge_into_monthly_jsonl keeps every stored row and adds no row of a
\* stored key; merge_raw_monthly_jsonl and the merge of strava_pull.py store, for every
\* key of the batch, the last record of the batch with that key, one record per key
ConflictPolicy ==
    /\ [][ tool = "lastfm_ingest.main"
             => /\ \A r \in StoredRows : r \in StoredRows'
                /\ (hpc = "append" /\ hpc' = "merge")
                       => NoTwoEqualKeys(file_rows(out_files', Head(todo).ym)) ]_vars
    /\ [][ (tool = "main" /\ hpc = "replace" /\ hpc' = "merge_raw")
             => LET incoming == Head(todo).rows
                    new      == file_rows(raw_files', Head(todo).ym)
                IN  /\ NoTwoEqualKeys(new)
                    /\ \A i \in DOMAIN incoming :
                           LastWithKey(incoming, scrobble_identity(incoming[i]))
                               \in Range(new) ]_vars
    /\ [][ (tool = "strava_pull.main" /\ hpc = "merge" /\ hpc' = "details")
             => /\ \A i, j \in DOMAIN activities_ndjson' :
                       i # j => activities_ndjson'[i].id # activities_ndjson'[j].id
                /\ \A i \in DOMAIN all_rows :
                       LastWithId(all_rows, all_rows[i].id) \in Range(activities_ndjson') ]_vars

\* merge_into_monthly_jsonl was called with one row whose key is stored with another
\* MusicBrainz id: the stored row is in the file, the row of the call is not
ConflictPolicyWitness ==
    /\ tool = "lastfm_ingest.main"
    /\ runs = 2
    /\ hpc = "merge"
    /\ todo = << >>
    /\ Len(all_rows) = 1
    /\ all_rows[1] \notin StoredRows
    /\ \E r \in StoredRows : scrobble_identity(r) = scrobble_identity(all_rows[1])

\* the last row of rows that has the row_key k
LastWithRowKey(rows, k) ==
    rows[CHOOSE i \in DOMAIN rows :
             /\ row_key(rows[i]) = k
             /\ \A j \in DOMAIN rows : j > i => row_key(rows[j]) # k]

\* a month file of main.py: rows of its month only, one row per row_key, ascending by uts
MonthFileOk(f) ==
    /\ \A i \in DOMAIN f.rows : year_month(f.rows[i].uts) = f.ym
    /\ \A i, j \in DOMAIN f.rows : i # j => row_key(f.rows[i]) # row_key(f.rows[j])
    /\ \A i, j \in DOMAIN f.rows : i < j => f.rows[i].uts <= f.rows[j].uts

\* C18: merge_raw_monthly_jsonl upserts: when a call returns, the file of the UTC
\* year-month of every incoming row holds the (last) incoming row of that key, a stored
\* row stays exactly when no incoming row has its key, and every file written holds rows
\* of its month only, one row per key, sorted ascending by uts
UpsertSplitSorted ==
    /\ [](tool = "main" => \A f \in raw_files \cup tmp_file : MonthFileOk(f))
    /\ [][ (tool = "main" /\ hpc = "replace" /\ hpc' = "merge_raw")
             => LET ym       == Head(todo).ym
                    incoming == Head(todo).rows
                    existing == file_rows(raw_files, ym)
                    new      == file_rows(raw_files', ym)
                IN  /\ \A i \in DOMAIN incoming :
                           LastWithRowKey(incoming, row_key(incoming[i])) \in Range(new)
                    /\ \A i \in DOMAIN existing :
                           (\A j \in DOMAIN incoming :
                                row_key(incoming[j]) # row_key(existing[i]))
                               => existing[i] \in Range(new)
                    /\ \A r \in Range(new) : r \in Range(incoming) \cup Range(existing)
                    /\ \A f \in raw_files : f.ym # ym => f \in raw_files' ]_vars
    /\ [](tool = "main" /\ hpc = "merge_raw" /\ todo = << >>
             => \A i \in DOMAIN all_rows :
                    LastWithRowKey(all_rows, row_key(all_rows[i]))
                        \in Range(file_rows(raw_files, year_month(all_rows[i].uts))))

\* the second call of the test has returned: the January file holds the incoming row
\* in place of the stored one and the untouched row, the February file was created
UpsertSplitSortedWitness ==
    /\ tool = "main"
    /\ runs = 2
    /\ hpc = "merge_raw"
    /\ todo = << >>
    /\ Len(all_rows) = 2
    /\ all_rows[1].mbid_track = "new"
    /\ year_month(all_rows[2].uts) = <<2024, 2>>
    /\ Len(file_rows(raw_files, <<2024, 1>>)) = 2
    /\ file_rows(raw_files, <<2024, 1>>)[1].mbid_track = "new"
    /\ file_rows(raw_files, <<2024, 1>>)[2].mbid_track = "keep"
    /\ Len(file_rows(raw_files, <<2024, 2>>)) = 1

\* C19: an item without a timestamp never aborts a run: no process of a tool ends with
\* the exception that reading the missing date of an item raises, so the dated items of
\* the same page are still ingested
MissingTimestampNotFatal == ~(rpc = "exit" /\ error = "KeyError")

\* the rows a tool holds or has stored: the accumulator, the rows waiting to be written,
\* the month files, the curated partitions and the raw dumps
HeldRows ==
    Range(all_rows) \cup Range(pending)
        \cup UNION { Range(g.rows) : g \in Range(todo) }
        \cup UNION { Range(f.rows) : f \in tmp_file \cup raw_files \cup out_files
                                             \cup curated \cup raw_dumps }

\* C20: no item flagged as currently playing is in the accumulator of a run, in a
\* partition or a month file, or in the watermark, on whatever page it came
NowPlayingNeverStored ==
    tool # "strava_pull.main"
        => /\ \A r \in HeldRows :
                  r.track # NowPlayingItem.name /\ r.uts # NowPlayingDatedItem.uts
           /\ NowPlayingDatedItem.uts \notin state_file

\* a run took rows from a page that had a currently-playing item in front of them,
\* stored them and saved the watermark
NowPlayingNeverStoredWitness ==
    /\ tool \in {"lastfm_ingest.run", "main"}
    /\ hpc = "done"
    /\ playing_seen
    /\ all_rows # << >>
    /\ curated # {}
    /\ state_file = { SetMax({ r.uts : r \in Range(all_rows) }) }

\* the page loop of the running process is executing
LoopRunning == rpc # "exit" /\ hpc \in {"loop", "fetching"}

\* the page loop of the running process has ended, or the process has
LoopOver ==
    \/ rpc = "exit"
    \/ hpc \notin {"loop", "fetching"}
    \/ tool = "lastfm_ingest.main" /\ page > total_pages

\* the scrobbles of the account from the start cursor on, the activities after it
Matching ==
    IF tool = "strava_pull.main"
    THEN { a \in remote : \A t \in from_uts : a.start_date > t }
    ELSE { t \in remote : \A f \in from_uts : t.uts >= f }

\* page p is the last page of the account that has items, or lies behind it
NoFurtherPages(p) == Cardinality(Matching) <= p * PageLimit

\* page p of the account has no item
EmptyPage(p) == Cardinality(Matching) <= (p - 1) * PageLimit

\* C21: the page loop requests the pages 1, 2, 3, ... in this order, none skipped and
\* none twice, the page in flight being the last one requested; after the response of
\* page p it stops exactly when the API reports no further page, page p is empty, or
\* max_pages pages were requested; and the loop of every process ends
PaginationOrderAndEnd ==
    /\ [](\A i \in DOMAIN requested : requested[i] = i)
    /\ [](hpc = "fetching" => requested # << >> /\ requested[Len(requested)] = page)
    /\ [][ (tool = "lastfm_ingest.run" /\ runs' = runs /\ hpc = "fetching" /\ hpc' # "fetching")
             => /\ (hpc' = "after_loop") <=> NoFurtherPages(page)
                /\ (hpc' = "loop") <=> ~NoFurtherPages(page)
                /\ hpc' = "loop" => page' = page + 1 ]_vars
    /\ [][ (tool = "main" /\ runs' = runs /\ requested' # requested /\ rpc' # "exit")
             => /\ (hpc' = "after_loop") <=> NoFurtherPages(page)
                /\ (hpc' = "loop") <=> ~NoFurtherPages(page)
                /\ hpc' = "loop" => page' = page + 1 ]_vars
    /\ [][ (tool = "lastfm_ingest.main" /\ runs' = runs /\ requested' # requested
              /\ rpc' # "exit")
             => /\ page' = page + 1
                /\ (page' > total_pages') <=> NoFurtherPages(page) ]_vars
    /\ [][ (tool = "strava_pull.main" /\ runs' = runs /\ hpc = "fetching" /\ hpc' # "fetching"
              /\ rpc' # "exit")
             => /\ (hpc' = "merge")
                       <=> (EmptyPage(page) \/ Len(requested) >= args_max_pages)
                /\ (hpc' = "loop") <=> ~(EmptyPage(page) \/ Len(requested) >= args_max_pages)
                /\ hpc' = "loop" => page' = page + 1 ]_vars
    /\ (LoopRunning ~> LoopOver)

\* a Strava run with --max-pages MaxPagesArg has left its page loop after that many
\* pages, while the athlete has a further page
PaginationOrderAndEndWitness ==
    /\ tool = "strava_pull.main"
    /\ hpc = "merge"
    /\ Len(requested) = MaxPagesArg
    /\ "max_pages" \in DOMAIN args
    /\ ~NoFurtherPages(MaxPagesArg)

\* the number of pages the account has for the start cursor of the running process
LivePages == (Cardinality(Matching) + PageLimit - 1) \div PageLimit

\* C22: the total a page response of a Last.fm tool reports is the one the account has
\* at that response, and after the response of page p the loop ends exactly when p has
\* reached the total of this response, whatever the responses before it reported:
\* a page that was added during the run is requested, a total that fell to p ends the loop
DecisionUsesLiveTotal ==
    [][ (tool # "strava_pull.main" /\ runs' = runs /\ Len(reported') = Len(reported) + 1)
          => LET t == reported'[Len(reported')]
             IN  /\ t = LivePages
                 /\ LoopOver' <=> page >= t
                 /\ ~LoopOver' => page' = page + 1 ]_vars

\* the first response reported fewer pages than the process has requested since: the
\* account grew during the run and the added page was requested
DecisionUsesLiveTotalWitness ==
    /\ tool = "lastfm_ingest.main"
    /\ reported # << >>
    /\ reported[1] >= 1
    /\ Len(requested) > reported[1]
    /\ Len(reported) = Len(requested)

\* wait_for_slot is running with the short window full and the daily quota not used up
ShortWindowFull ==
    /\ requester = "request_json"
    /\ rpc = "wait"
    /\ Cardinality(InWindow(limiter.short_window_requests, now, ShortWindowSeconds))
           >= limiter.short_window_limit
    /\ Cardinality(InWindow(limiter.daily_requests, now, DaySeconds)) < limiter.daily_limit

\* the oldest timestamp of the short window at the time now
OldestInShortWindow ==
    LET q == limiter.short_window_requests
        S == { q[i] : i \in InWindow(q, now, ShortWindowSeconds) }
    IN  CHOOSE x \in S : \A y \in S : x <= y

\* C23: wait_for_slot with the short window full and the daily quota not used up does
\* not raise: it sleeps until one second after the oldest request of the short window
\* leaves the window and checks again (time alone may pass before it reads the clock),
\* and in the end it returns
ShortWindowSleeps ==
    /\ [][ ShortWindowFull
             => /\ rpc' = "wait"
                /\ error' = error
                /\ http_total' = http_total
                /\ \/ now' = now + 1 /\ limiter' = limiter /\ slot_sleeps' = slot_sleeps
                   \/ /\ now' = OldestInShortWindow + ShortWindowSeconds + 1
                      /\ slot_sleeps' = slot_sleeps + 1
                      /\ limiter'.daily_requests
                             = SubSeq(limiter.daily_requests,
                                      Len(limiter.daily_requests) + 1
                                          - Cardinality(InWindow(limiter.daily_requests, now,
                                                                 DaySeconds)),
                                      Len(limiter.daily_requests)) ]_vars
    /\ ShortWindowFull ~> (rpc = "get")

\* wait_for_slot has slept once and returned: the requests that had filled the short
\* window are still in the daily window, the short window has room
ShortWindowSleepsWitness ==
    /\ requester = "request_json"
    /\ rpc = "get"
    /\ error = None
    /\ slot_sleeps = 1
    /\ Len(limiter.short_window_requests) < limiter.short_window_limit
    /\ Len(limiter.daily_requests) >= limiter.short_window_limit

\* a process of a Last.fm tool starts without an explicit start value while there is
\* neither a watermark nor stored output
FirstRunStarts ==
    /\ tool # "strava_pull.main"
    /\ runs' = runs + 1
    /\ ~ExplicitStart(args')
    /\ state_file = {}
    /\ raw_files = {}
    /\ out_files = {}
    /\ curated = {}

\* C24: a run without an explicit start value, watermark and prior output starts at the
\* current time minus 30 days and never asks for the full history
BootstrapLookback ==
    [][ FirstRunStarts => from_uts' = { now - 30 * 24 * 3600 } ]_vars

\* C24, amended: such a run of run() of scripts/lastfm_ingest.py starts at the current
\* time minus 30 days; such a run of main.py and of main() of scripts/lastfm_ingest.py
\* has no start cursor and asks for the full history
BootstrapPerTool ==
    [][ FirstRunStarts
          => IF tool = "lastfm_ingest.run"
             THEN from_uts' = { now - 30 * 24 * 3600 }
             ELSE from_uts' = {} ]_vars

\* the first run of run() has received the scrobbles of the last 30 days and left out
\* an older scrobble of the account
BootstrapPerToolWitness ==
    /\ tool = "lastfm_ingest.run"
    /\ runs = 1
    /\ ~ExplicitStart(args)
    /\ hpc = "done"
    /\ state_file # {}
    /\ from_uts = { now - 30 * 24 * 3600 }
    /\ \E t \in remote : t.uts < now - 30 * 24 * 3600

\* C25: when a run of run() or of main.py that merged a row has ended, the watermark is
\* the newest uts of the rows it merged into the curated partitions; a row that came
\* twice counts once, an item that is playing or has no date not at all
WatermarkIsMaxMerged ==
    (tool \in {"lastfm_ingest.run", "main"} /\ hpc = "done" /\ all_rows # << >>)
        => LET merged == Range(all_rows) \cap curated_rows(curated)
           IN  /\ merged = Range(all_rows)
               /\ \A r \in merged : r.track \notin {NowPlayingItem.name, UndatedItem.name}
               /\ \E r \in merged : state_file = { r.uts }
               /\ \A r \in merged : \A w \in state_file : r.uts <= w

\* a run has ended whose pages held a row twice and a currently-playing item
WatermarkIsMaxMergedWitness ==
    /\ tool = "lastfm_ingest.run"
    /\ hpc = "done"
    /\ playing_seen
    /\ \E i, j \in DOMAIN all_rows : i # j /\ all_rows[i] = all_rows[j]
    /\ Cardinality(Range(all_rows)) >= 2
    /\ state_file # {}

\* C26: a month file a merge has written holds no two rows of one identity key, also
\* when the file held a key twice before the merge
MergeDedupsUnion ==
    /\ [][ (tool = "lastfm_ingest.main" /\ hpc # "idle" /\ out_files' # out_files)
             => \A f \in out_files' \ out_files : NoTwoEqualKeys(f.rows) ]_vars
    /\ [][ (tool = "main" /\ hpc # "idle" /\ raw_files' # raw_files)
             => \A f \in raw_files' \ raw_files :
                    \A i, j \in DOMAIN f.rows :
                        i # j => row_key(f.rows[i]) # row_key(f.rows[j]) ]_vars

\* the rows of rows that are the row r of merge_raw_monthly_jsonl's caller or one of the
\* two legacy shapes of a row of its scrobble
SameScrobble(rows, r) ==
    { i \in DOMAIN rows :
          \E x \in MergeRows("main") :
              /\ row_key(x) = row_key(r)
              /\ rows[i] \in {x, ApiShaped(x), DictShaped(x)} }

\* C27: a stored row in a legacy shape has the key of the normalized row of its scrobble:
\* when merge_raw_monthly_jsonl has merged the normalized row into the file, the file
\* holds one row of that scrobble, the incoming one
LegacyRowsShareKey ==
    /\ \A x \in MergeRows("main") :
           /\ row_key(existing_for_key(ApiShaped(x))) = row_key(x)
           /\ row_key(existing_for_key(DictShaped(x))) = row_key(x)
    /\ [][ (tool = "main" /\ hpc = "replace" /\ hpc' = "merge_raw")
             => LET incoming == Head(todo).rows
                    new      == file_rows(raw_files', Head(todo).ym)
                IN  \A i \in DOMAIN incoming :
                        /\ Cardinality(SameScrobble(new, incoming[i])) = 1
                        /\ \A k \in SameScrobble(new, incoming[i]) :
                               new[k] = LastWithRowKey(incoming, row_key(incoming[i])) ]_vars

\* the file holds the row of a scrobble in the shape of the API, merge_raw_monthly_jsonl
\* was called with the normalized row of that scrobble and has written the file to put in
\* its place: that row only
LegacyRowsShareKeyWitness ==
    /\ tool = "main"
    /\ hpc = "replace"
    /\ Len(all_rows) = 1
    /\ all_rows[1].mbid_track = "new"
    /\ raw_files = { [ ym |-> <<2024, 1>>, rows |-> <<ApiShaped(all_rows[1])>> ] }
    /\ tmp_file = { [ ym |-> <<2024, 1>>, rows |-> all_rows ] }

\* the month files of the Last.fm tool of this behaviour
MonthFiles == IF tool = "main" THEN raw_files ELSE out_files

\* the identity keys of the rows of a month file, by the key function of its tool
FileKeys(rows) ==
    IF tool = "main"
    THEN { row_key(existing_for_key(r)) : r \in Range(rows) }
    ELSE { scrobble_identity(r) : r \in Range(rows) }

\* the months of the rows the merge function was called with
IncomingMonths == { year_month(r.uts) : r \in Range(all_rows) }

\* C28: a step of merge_raw_monthly_jsonl or merge_into_monthly_jsonl keeps every key
\* of every month file in that file, and leaves every file of a month without incoming
\* row as it is, every file when the batch is empty; it creates no file of such a month
MergeKeepsStored ==
    [][ (tool \in {"main", "lastfm_ingest.main"} /\ (hpc # "idle" \/ hpc' # "idle"))
          => /\ \A f \in MonthFiles :
                    /\ FileKeys(f.rows) \subseteq FileKeys(file_rows(MonthFiles', f.ym))
                    /\ f.ym \notin IncomingMonths => f \in MonthFiles'
             /\ \A g \in MonthFiles' : g \notin MonthFiles => g.ym \in IncomingMonths ]_vars

\* merge_raw_monthly_jsonl has returned from its second call, which had rows of January
\* only and rewrote the January file; the February file of the first call is in place
MergeKeepsStoredWitness ==
    /\ tool = "main"
    /\ runs = 2
    /\ hpc = "merge_raw"
    /\ todo = << >>
    /\ IncomingMonths = { <<2024, 1>> }
    /\ \E f \in raw_files : f.ym = <<2024, 2>> /\ Len(f.rows) = 1
    /\ \E f \in raw_files :
           /\ f.ym = <<2024, 1>>
           /\ Len(f.rows) = 2
           /\ FileKeys(all_rows) \subseteq FileKeys(f.rows)
           /\ FileKeys(f.rows) # FileKeys(all_rows)

\* the process is a run of strava_pull.py without --force
WithoutForce == "force" \in DOMAIN args /\ ~args.force

\* the ids of a list of activities
IdsOf(activities) == { a.id : a \in Range(activities) }

\* the ids of new_activity_ids that fetch_activity_details has not been called for
DetailsToCome == IF hpc = "details_get" THEN Tail(todo) ELSE todo

NonDecreasing(q) == \A i, j \in DOMAIN q : i < j => q[i] <= q[j]

\* q is the end of r
IsSuffix(q, r) ==
    /\ Len(q) <= Len(r)
    /\ q = SubSeq(r, Len(r) - Len(q) + 1, Len(r))

\* C30: with short_window_seconds not above the length of the daily window and a clock
\* that does not go back, the two queues of a StravaRateLimiter are in non-decreasing
\* order and short_window_requests is the end of daily_requests after any calls of
\* wait_for_slot and note_request, and _prune leaves no timestamp in a queue that is as
\* old as the window of the queue or older
QueuesOrderedAndNested ==
    /\ [](/\ NonDecreasing(limiter.short_window_requests)
          /\ NonDecreasing(limiter.daily_requests)
          /\ IsSuffix(limiter.short_window_requests, limiter.daily_requests))
    /\ [][ (requester = "request_json" /\ rpc = "wait"
              /\ (rpc' # "wait" \/ slot_sleeps' # slot_sleeps))
             => /\ \A e \in Range(limiter'.short_window_requests) :
                       now - e < limiter.short_window_seconds
                /\ \A e \in Range(limiter'.daily_requests) : now - e < DaySeconds ]_vars

\* wait_for_slot has returned after a _prune that took timestamps from both queues, more
\* of them from short_window_requests, and left two in daily_requests
QueuesOrderedAndNestedWitness ==
    /\ requester = "request_json"
    /\ rpc = "get"
    /\ limiter.short_window_seconds <= DaySeconds
    /\ Len(limiter.daily_requests) >= 2
    /\ Len(limiter.short_window_requests) >= 1
    /\ Len(limiter.short_window_requests) < Len(limiter.daily_requests)
    /\ http_total > Len(limiter.daily_requests)

====
